---- MODULE Spec2Model ----
(***************************************************************************)
(* RetailIQ: the market basket pipeline of csvDataProcessor.js             *)
(* (processMarketBasketData, generateAssociationRules,                     *)
(* generateFrequentItemsets) and the Market Basket Analysis page that      *)
(* asks the backend for association rules (MarketBasketAnalysis.jsx).      *)
(*                                                                         *)
(* Strings are sequences of UTF-16 code units, so that the template        *)
(* literal of the basket key, Array.prototype.sort() on names, join and    *)
(* split are modelled by what they do.  JavaScript numbers are exact       *)
(* rationals <<numerator, denominator>> with a positive denominator; the   *)
(* three non-finite results of a division are kept apart (JsDivide).  For  *)
(* the operand sizes reachable with MaxRows = 6 every comparison made by   *)
(* the code (thresholds, sort comparator) has the same outcome on IEEE     *)
(* doubles as on the rationals.  Objects used as maps are sequences of     *)
(* entries in insertion order (the order Object.values / Object.entries    *)
(* give for keys that are not integer-like).                               *)
(* The fields basket.total and rule.strength are left out: no property     *)
(* below reads them.                                                       *)
(***************************************************************************)
EXTENDS Integers, Sequences, FiniteSets, TLC

\* ---------------------------------------------------------------- bounds
\* number of rows of the input list that processMarketBasketData reads
MaxRows == 6
\* number of times the page starts loadData (the mount and the slider moves)
MaxLoads == 3

\* longest list of rows given to processSalesData
MaxSalesRows == 4

\* ---------------------------------------------------------------- inputs
\* product_name values "A", "B", "C"
Products == {<<65>>, <<66>>, <<67>>}
\* customer_id values "1", "2"
Customers == {<<49>>, <<50>>}
\* date values "d", "e"
Dates == {<<100>>, <<101>>}
\* the rows an input list is made of: customer 1 buys on both dates,
\* customer 2 on the first date only (three possible baskets)
Transactions ==
  { [customer_id |-> c, date |-> d, product_name |-> p] :
      c \in Customers, d \in Dates, p \in Products } \
  { [customer_id |-> <<50>>, date |-> <<101>>, product_name |-> p] : p \in Products }

\* ---------------------------------------------------------------- state
VARIABLES
  baskets,           \* the object `baskets` of processMarketBasketData
  pc,                \* "reading": inside transactions.forEach; "done": returned
  basketData,        \* the object processMarketBasketData returns
  divisionsByZero    \* divisions with a zero divisor evaluated by the last call

basketVars == <<baskets, pc, basketData, divisionsByZero>>

\* the Market Basket Analysis page and the backend it talks to
VARIABLES
  dataset,           \* what the backend holds: has_data and the rules of the upload
  minSupport,        \* useState(0.005)
  minConfidence,     \* useState(0.1)
  loading,           \* useState(true)
  error,             \* useState(null)
  associationRules,  \* useState([])
  requests,          \* the runs of loadData that wait for a response
  started,           \* number of runs of loadData started so far
  appliedRequest     \* the run whose rules were last given to setAssociationRules

pageVars == <<dataset, minSupport, minConfidence, loading, error, associationRules,
              requests, started, appliedRequest>>

\* processSalesData
VARIABLES
  dailySales,        \* the object `dailySales`
  salesPc,           \* "reading": inside transactions.forEach; "done": returned
  salesData,         \* the object processSalesData returns
  salesInput         \* the rows of `transactions` read so far

salesVars == <<dailySales, salesPc, salesData, salesInput>>

\* the Sales Forecasting page and the backend it talks to
VARIABLES
  salesHistory,      \* what the backend holds: the daily revenue of the upload
  selectedTimeframe, \* useState("30days")
  forecastData,      \* useState(null)
  metrics,           \* useState(null)
  forecastLoading,   \* useState(true)
  forecastError,     \* useState(null)
  forecastMounted,   \* the effect of the first render has run
  forecastRequests   \* the runs of loadData that wait for a response

forecastVars == <<salesHistory, selectedTimeframe, forecastData, metrics, forecastLoading,
                  forecastError, forecastMounted, forecastRequests>>

\* the Product Recommendations page
VARIABLES
  currentItems,      \* useState([])
  newItem,           \* useState("")
  recommendations,   \* useState([])
  recoLoading,       \* useState(false)
  recoError,         \* useState(null)
  recoRequests,      \* the calls of getRecommendations that wait for a response
  lastAnswer         \* how the last call of getRecommendations ended

recoVars == <<currentItems, newItem, recommendations, recoLoading, recoError,
              recoRequests, lastAnswer>>

\* the file checks of the upload UIs
VARIABLES
  chosenFile,        \* the File handed to validateFile
  validation         \* what validateFile returned for it

validateVars == <<chosenFile, validation>>

\* the Data Upload page, the context it writes and the Upload dialog on it
VARIABLES
  uploadedFiles,          \* FileUploadContext: useState([])
  showAnalysisSelection,  \* DataUpload: useState(false)
  isOpen,                 \* UploadDialog: useState(false)
  dialogFiles,            \* UploadDialog: its own uploadedFiles, useState([])
  uploads,                \* the runs of uploadFile that wait at their await
  nextId,                 \* the ids handed out so far, plus one
  sentToBackend,          \* ids whose apiService.uploadData call resolved
  removedIds              \* ids given to the context's removeFile, and whether
                          \* their upload was waiting then

uploadVars == <<uploadedFiles, showAnalysisSelection, isOpen, dialogFiles, uploads,
                nextId, sentToBackend, removedIds>>

\* App, the Sidebar and the Dashboard
VARIABLES
  currentPage,       \* App: useState("dashboard")
  isMobileMenuOpen,  \* Sidebar: useState(false)
  dashMounted,       \* a Dashboard is mounted and its effect has run
  dashboardData,     \* Dashboard: useState({...})
  dashLoading,       \* Dashboard: useState(true)
  dashLoads,         \* runs of loadDashboardData of the mounted Dashboard that wait
  dialogUploads,     \* uploads that wait in the dialogs of the Sidebar and the Dashboard
  uploadsStarted,    \* number of those uploads started so far
  timers,            \* setTimeout(() => refreshDashboard(), 1000) not yet fired
  resets,            \* runs of refreshDashboard that wait for apiService.resetData
  runOrigins,        \* what started the runs of refreshDashboard so far
  resetOrigins,      \* what started the runs that called apiService.resetData
  clearOrigins,      \* what started the runs that called clearAllFiles
  lastStep           \* the handler that ran last

dashVars == <<currentPage, isMobileMenuOpen, dashMounted, dashboardData, dashLoading,
              dashLoads, dialogUploads, uploadsStarted, timers, resets, runOrigins,
              resetOrigins, clearOrigins, lastStep>>

\* loadCSVData
VARIABLES
  csvPc,             \* "idle", "fetch" (await fetch), "text" (await response.text()), "done"
  csvResponse,       \* the Response fetch resolved with
  csvReturn          \* what loadCSVData returned, and which function built it

csvVars == <<csvPc, csvResponse, csvReturn>>

appVars == <<validateVars, uploadVars, dashVars, csvVars>>

\* the analysis pages
analysisVars == <<basketVars, pageVars, salesVars, forecastVars, recoVars>>

restVars == <<salesVars, forecastVars, recoVars, appVars>>

vars == <<basketVars, pageVars, restVars>>

\* ---------------------------------------------------------------- strings
\* the separator of the pair key, ' -> '
Arrow == <<32, 45, 62, 32>>

\* a < b in the order of Array.prototype.sort() without comparator
\* (strings compared by UTF-16 code units)
RECURSIVE StrLess(_, _)
StrLess(a, b) ==
  IF b = <<>> THEN FALSE
  ELSE IF a = <<>> THEN TRUE
  ELSE IF Head(a) # Head(b) THEN Head(a) < Head(b)
  ELSE StrLess(Tail(a), Tail(b))

\* [x, y].sort()
SortPair(x, y) == IF StrLess(y, x) THEN <<y, x>> ELSE <<x, y>>

\* arr.join(sep)
RECURSIVE Join(_, _)
Join(arr, sep) ==
  IF arr = <<>> THEN <<>>
  ELSE IF Len(arr) = 1 THEN arr[1]
  ELSE arr[1] \o sep \o Join(Tail(arr), sep)

IsPrefix(p, s) == Len(p) <= Len(s) /\ SubSeq(s, 1, Len(p)) = p

\* s.split(sep), sep not empty
RECURSIVE SplitFrom(_, _, _)
SplitFrom(s, sep, cur) ==
  IF s = <<>> THEN <<cur>>
  ELSE IF IsPrefix(sep, s)
       THEN <<cur>> \o SplitFrom(SubSeq(s, Len(sep) + 1, Len(s)), sep, <<>>)
       ELSE SplitFrom(Tail(s), sep, Append(cur, Head(s)))

Split(s, sep) == SplitFrom(s, sep, <<>>)

\* `${transaction.customer_id}_${transaction.date}`
BasketKey(transaction) == transaction.customer_id \o <<95>> \o transaction.date

\* ---------------------------------------------------------------- objects used as maps
HasKey(obj, k) == \E i \in 1..Len(obj) : obj[i].key = k

IndexOf(obj, k) == CHOOSE i \in 1..Len(obj) : obj[i].key = k

\* obj[k] || dflt, for counters (0 and undefined are falsy)
GetOr(obj, k, dflt) ==
  IF HasKey(obj, k) /\ obj[IndexOf(obj, k)].value # 0
  THEN obj[IndexOf(obj, k)].value ELSE dflt

\* obj[k] = (obj[k] || 0) + 1
Increment(obj, k) ==
  IF HasKey(obj, k)
  THEN [obj EXCEPT ![IndexOf(obj, k)].value = @ + 1]
  ELSE Append(obj, [key |-> k, value |-> 1])

\* ---------------------------------------------------------------- numbers
Rat(n, d) == <<n, d>>
RatLess(x, y) == x[1] * y[2] < y[1] * x[2]
RatGeq(x, y) == ~RatLess(x, y)
RatEq(x, y) == x[1] * y[2] = y[1] * x[2]
One == Rat(1, 1)
Zero == Rat(0, 1)
\* 1 - x
OneMinus(x) == Rat(x[2] - x[1], x[2])
\* x / y for y # 0
RatDiv(x, y) ==
  IF y[1] > 0 THEN Rat(x[1] * y[2], x[2] * y[1])
  ELSE Rat(0 - x[1] * y[2], 0 - x[2] * y[1])

\* the JavaScript value of x / y
JsDivide(x, y) ==
  IF y[1] # 0 THEN [kind |-> "finite", value |-> RatDiv(x, y)]
  ELSE IF x[1] > 0 THEN [kind |-> "Infinity", value |-> Rat(0, 1)]
  ELSE IF x[1] < 0 THEN [kind |-> "-Infinity", value |-> Rat(0, 1)]
  ELSE [kind |-> "NaN", value |-> Rat(0, 1)]

Min(a, b) == IF a < b THEN a ELSE b

\* ---------------------------------------------------------------- processMarketBasketData, the forEach body
\* one iteration of transactions.forEach: create the basket when its key
\* is new, then push the product name
AddToBaskets(obj, transaction) ==
  LET basketKey == BasketKey(transaction)
      created == IF HasKey(obj, basketKey) THEN obj
                 ELSE Append(obj, [key |-> basketKey,
                                   value |-> [customer_id |-> transaction.customer_id,
                                              date |-> transaction.date,
                                              products |-> <<>>]])
  IN [created EXCEPT ![IndexOf(created, basketKey)].value.products =
                         Append(@, transaction.product_name)]

\* Object.values(baskets)
ObjectValues(obj) == [i \in 1..Len(obj) |-> obj[i].value]

RowsRead(obj) ==
  LET RECURSIVE Sum(_)
      Sum(i) == IF i = 0 THEN 0 ELSE Len(obj[i].value.products) + Sum(i - 1)
  IN Sum(Len(obj))

\* ---------------------------------------------------------------- generateAssociationRules
\* the support and confidence a pair must reach, and the size of the result
MinSupportRule == Rat(5, 100)
MinConfidenceRule == Rat(5, 10)
TopRules == 10

\* keys.forEach(k => counts[k] = (counts[k] || 0) + 1)
RECURSIVE CountEach(_, _)
CountEach(keys, counts) ==
  IF keys = <<>> THEN counts
  ELSE CountEach(Tail(keys), Increment(counts, Head(keys)))

\* the two nested loops over i < j of one basket: the pair keys in the
\* order they are counted, each [products[i], products[j]].sort().join(' -> ')
PairKeys(products) ==
  LET RECURSIVE From(_, _)
      From(i, j) ==
        IF i > Len(products) THEN <<>>
        ELSE IF j > Len(products) THEN From(i + 1, i + 2)
        ELSE <<Join(SortPair(products[i], products[j]), Arrow)>> \o From(i, j + 1)
  IN From(1, 2)

\* singleProducts after baskets.forEach
RECURSIVE SingleProducts(_, _)
SingleProducts(basketArray, counts) ==
  IF basketArray = <<>> THEN counts
  ELSE SingleProducts(Tail(basketArray), CountEach(Head(basketArray).products, counts))

\* productPairs after baskets.forEach
RECURSIVE ProductPairs(_, _)
ProductPairs(basketArray, counts) ==
  IF basketArray = <<>> THEN counts
  ELSE ProductPairs(Tail(basketArray),
                    CountEach(PairKeys(Head(basketArray).products), counts))

\* the numbers computed for one entry [pair, count] of productPairs
PairMetrics(entry, singleProducts, totalBaskets) ==
  LET parts == Split(entry.key, Arrow)
      antecedent == parts[1]
      consequent == parts[2]
      count == entry.value
      confidence == Rat(count, GetOr(singleProducts, antecedent, 1))
      consequentSupport == Rat(GetOr(singleProducts, consequent, 1), totalBaskets)
  IN [antecedent |-> antecedent,
      consequent |-> consequent,
      count |-> count,
      support |-> Rat(count, totalBaskets),
      confidence |-> confidence,
      consequentSupport |-> consequentSupport,
      lift |-> RatDiv(confidence, consequentSupport)]

\* support >= 0.05 && confidence >= 0.5 && lift > 1
PassesFilter(m) ==
  /\ RatGeq(m.support, MinSupportRule)
  /\ RatGeq(m.confidence, MinConfidenceRule)
  /\ RatLess(One, m.lift)

\* the object pushed for entry number `index` (0-based) of productPairs
RuleOf(m, index) ==
  [id |-> index + 1,
   antecedent |-> <<m.antecedent>>,
   consequent |-> <<m.consequent>>,
   support |-> m.support,
   confidence |-> m.confidence,
   lift |-> m.lift,
   conviction |-> JsDivide(OneMinus(m.consequentSupport), OneMinus(m.confidence)),
   transactions |-> m.count,
   expectedRevenue |-> m.count * 50]

\* rules after Object.entries(productPairs).forEach
PushedRules(productPairs, singleProducts, totalBaskets) ==
  LET RECURSIVE From(_)
      From(i) ==
        IF i > Len(productPairs) THEN <<>>
        ELSE LET m == PairMetrics(productPairs[i], singleProducts, totalBaskets)
             IN (IF PassesFilter(m) THEN <<RuleOf(m, i - 1)>> ELSE <<>>) \o From(i + 1)
  IN From(1)

\* arr.sort((a, b) => key(b) - key(a)), key[i] being the key of arr[i]:
\* Array.prototype.sort is stable, so elements of equal key keep their order
SortDescending(arr, key) ==
  LET RECURSIVE Insert(_, _)
      Insert(sorted, i) ==
        IF sorted = <<>> THEN <<i>>
        ELSE IF RatLess(key[Head(sorted)], key[i]) THEN <<i>> \o sorted
        ELSE <<Head(sorted)>> \o Insert(Tail(sorted), i)
      RECURSIVE Sort(_)
      Sort(n) == IF n = 0 THEN <<>> ELSE Insert(Sort(n - 1), n)
      order == Sort(Len(arr))
  IN [k \in 1..Len(arr) |-> arr[order[k]]]

\* rules.sort((a, b) => b.lift - a.lift)
LiftOf(rule) == rule.lift
SortByLift(rules) == SortDescending(rules, [i \in 1..Len(rules) |-> LiftOf(rules[i])])

generateAssociationRules(basketArray) ==
  LET singleProducts == SingleProducts(basketArray, <<>>)
      productPairs == ProductPairs(basketArray, <<>>)
      totalBaskets == Len(basketArray)
      sorted == SortByLift(PushedRules(productPairs, singleProducts, totalBaskets))
  IN SubSeq(sorted, 1, Min(TopRules, Len(sorted)))

\* the divisions with divisor 0 that generateAssociationRules evaluates:
\* the conviction of a pushed rule whose confidence is 1
ZeroDivisors(basketArray) ==
  LET singleProducts == SingleProducts(basketArray, <<>>)
      productPairs == ProductPairs(basketArray, <<>>)
  IN Cardinality({ i \in 1..Len(productPairs) :
       LET m == PairMetrics(productPairs[i], singleProducts, Len(basketArray))
       IN PassesFilter(m) /\ OneMinus(m.confidence)[1] = 0 })

\* ---------------------------------------------------------------- generateFrequentItemsets
TopItemsets == 10

\* entries.sort(([,a], [,b]) => b - a)
CountOf(entry) == Rat(entry.value, 1)
SortByCount(entries) ==
  SortDescending(entries, [i \in 1..Len(entries) |-> CountOf(entries[i])])

generateFrequentItemsets(basketArray) ==
  LET itemCounts == SingleProducts(basketArray, <<>>)
      sorted == SortByCount(itemCounts)
      top == SubSeq(sorted, 1, Min(TopItemsets, Len(sorted)))
  IN [i \in 1..Len(top) |->
        [items |-> <<top[i].key>>,
         frequency |-> top[i].value,
         support |-> Rat(top[i].value, Len(basketArray))]]

\* ---------------------------------------------------------------- the backend
\* rules the backend has mined from an upload, before any threshold
RuleAB == [antecedent |-> <<<<65>>>>, consequent |-> <<<<66>>>>,
           support |-> Rat(4, 100), confidence |-> Rat(2, 10), lift |-> Rat(3, 1),
           conviction |-> Rat(11, 10)]
RuleBC == [antecedent |-> <<<<66>>>>, consequent |-> <<<<67>>>>,
           support |-> Rat(6, 1000), confidence |-> Rat(4, 10), lift |-> Rat(3, 2),
           conviction |-> Rat(12, 10)]
RuleAC == [antecedent |-> <<<<65>>>>, consequent |-> <<<<67>>>>,
           support |-> Rat(2, 100), confidence |-> Rat(45, 100), lift |-> Rat(3, 1),
           conviction |-> Rat(13, 10)]

Datasets ==
  { [has_data |-> FALSE, rules |-> <<>>] } \cup
  { [has_data |-> TRUE, rules |-> rs] :
      rs \in { <<>>, <<RuleAB>>, <<RuleBC>>, <<RuleBC, RuleAB>>, <<RuleBC, RuleAB, RuleAC>> } }

\* POST /market-basket-analysis: the rules that reach the three thresholds
BackendAnalysis(data, payload) ==
  LET Qualifies(r) ==
        /\ RatGeq(r.support, payload.min_support)
        /\ RatGeq(r.confidence, payload.min_confidence)
        /\ RatGeq(r.lift, payload.min_lift)
  IN SelectSeq(data.rules, Qualifies)

\* ---------------------------------------------------------------- apiService
\* x || dflt for numbers
JsOr(x, dflt) == IF x[1] = 0 THEN dflt ELSE x

\* the payload of performMarketBasketAnalysis(parameters)
AnalysisPayload(parameters) ==
  [min_support |-> JsOr(parameters.minSupport, Rat(1, 100)),
   min_confidence |-> JsOr(parameters.minConfidence, Rat(2, 10)),
   min_lift |-> JsOr(parameters.minLift, One)]

\* ---------------------------------------------------------------- MarketBasketAnalysis.loadData
\* the values the sliders can be moved to
SupportChoices == { Rat(5, 1000), Rat(3, 100) }
ConfidenceChoices == { Rat(1, 10), Rat(3, 10), Rat(5, 10) }
\* values of Math.round(Math.random() * 1000 + 100)
RevenueChoices == { 100, 1100 }
\* slice(0, 100)
TopShown == 100

Null == "null"
Smartphone == <<83, 109, 97, 114, 116, 112, 104, 111, 110, 101>>
Headphones == <<72, 101, 97, 100, 112, 104, 111, 110, 101, 115>>

\* the rule shown when the response has no rules
MockRule ==
  [id |-> 1, antecedent |-> <<Smartphone>>, consequent |-> <<Headphones>>,
   support |-> Rat(8, 100), confidence |-> Rat(65, 100), lift |-> Rat(23, 10),
   expectedRevenue |-> 520, transactions |-> 80, conviction |-> Rat(15, 10)]

\* Math.round(x) for x >= 0
Round(x) == (2 * x[1] + x[2]) \div (2 * x[2])

LiftOrZero(rule) == JsOr(rule.lift, Zero)

\* processedRules: the top rules by lift, or the mock rule
ProcessRules(association_rules, revenue) ==
  IF Len(association_rules) > 0
  THEN LET sorted == SortDescending(association_rules,
                       [i \in 1..Len(association_rules) |-> LiftOrZero(association_rules[i])])
           topRules == SubSeq(sorted, 1, Min(TopShown, Len(sorted)))
       IN [index \in 1..Len(topRules) |->
             [id |-> index,
              antecedent |-> topRules[index].antecedent,
              consequent |-> topRules[index].consequent,
              support |-> JsOr(topRules[index].support, Zero),
              confidence |-> JsOr(topRules[index].confidence, Zero),
              lift |-> JsOr(topRules[index].lift, One),
              conviction |-> JsOr(topRules[index].conviction, One),
              transactions |-> Round(Rat(JsOr(topRules[index].support, Zero)[1] * 1000,
                                         JsOr(topRules[index].support, Zero)[2])),
              expectedRevenue |-> revenue[index]]]
  ELSE <<MockRule>>

\* the messages setError receives
NoDataError ==
  "Failed to load market basket analysis: No data uploaded yet. Please upload a CSV file first from the Data Upload page."
NetworkError ==
  "Failed to load market basket analysis: Network error. Please check if the backend server is running."
ServerError ==
  "Failed to load market basket analysis: Server error while performing market basket analysis. Please try again later."

\* no run of loadData has shown rules yet
NoRequest == [id |-> 0, minSupport |-> Zero, minConfidence |-> Zero, stage |-> "none"]

PageInit ==
  /\ minSupport = Rat(5, 1000)
  /\ minConfidence = Rat(1, 10)
  /\ loading = TRUE
  /\ error = Null
  /\ associationRules = <<>>
  /\ requests = {}
  /\ started = 0
  /\ appliedRequest = NoRequest

\* loadData up to its first await: setLoading(true), setError(null),
\* apiService.getDataSummary()
StartLoad(support, confidence) ==
  /\ loading' = TRUE
  /\ error' = Null
  /\ started' = started + 1
  /\ requests' = requests \cup
       { [id |-> started + 1, minSupport |-> support, minConfidence |-> confidence,
          stage |-> "summary"] }
  /\ UNCHANGED <<dataset, associationRules, appliedRequest, basketVars, restVars>>

\* the effect after the first render
Mount ==
  /\ started = 0
  /\ StartLoad(minSupport, minConfidence)
  /\ UNCHANGED <<minSupport, minConfidence>>

\* the Min Support slider: setMinSupport, then the effect runs loadData; the
\* slider is rendered only when the page shows neither the spinner nor the error
ChangeMinSupport(value) ==
  /\ started \in 1..(MaxLoads - 1)
  /\ ~loading
  /\ error = Null
  /\ value # minSupport
  /\ minSupport' = value
  /\ StartLoad(value, minConfidence)
  /\ UNCHANGED minConfidence

\* the Min Confidence slider
ChangeMinConfidence(value) ==
  /\ started \in 1..(MaxLoads - 1)
  /\ ~loading
  /\ error = Null
  /\ value # minConfidence
  /\ minConfidence' = value
  /\ StartLoad(minSupport, value)
  /\ UNCHANGED minSupport

\* the catch and finally blocks of loadData
Fail(q, message) ==
  /\ error' = message
  /\ loading' = FALSE
  /\ requests' = requests \ {q}
  /\ UNCHANGED <<dataset, minSupport, minConfidence, associationRules, started,
                 appliedRequest, basketVars, restVars>>

\* getDataSummary resolves with has_data: performMarketBasketAnalysis is called
SummaryHasData(q) ==
  /\ q.stage = "summary"
  /\ dataset.has_data
  /\ requests' = (requests \ {q}) \cup {[q EXCEPT !.stage = "analysis"]}
  /\ UNCHANGED <<dataset, minSupport, minConfidence, loading, error, associationRules,
                 started, appliedRequest, basketVars, restVars>>

\* getDataSummary resolves without data: loadData throws "No data uploaded yet"
SummaryNoData(q) ==
  /\ q.stage = "summary"
  /\ ~dataset.has_data
  /\ Fail(q, NoDataError)

\* a request is rejected: fetch fails, or the server answers 500
RequestFails(q, message) ==
  /\ message = ServerError => q.stage = "analysis"
  /\ Fail(q, message)

\* performMarketBasketAnalysis resolves: the rules are processed and shown
AnalysisArrives(q) ==
  /\ q.stage = "analysis"
  /\ LET response == BackendAnalysis(dataset,
                       AnalysisPayload([minSupport |-> q.minSupport,
                                        minConfidence |-> q.minConfidence,
                                        minLift |-> One]))
     IN \E revenue \in [1..Len(response) -> RevenueChoices] :
          associationRules' = ProcessRules(response, revenue)
  /\ appliedRequest' = q
  /\ loading' = FALSE
  /\ requests' = requests \ {q}
  /\ UNCHANGED <<dataset, minSupport, minConfidence, error, started, basketVars, restVars>>

\* ---------------------------------------------------------------- processMarketBasketData as steps
NoResult == [baskets |-> <<>>, associationRules |-> <<>>, frequentItemsets |-> <<>>]

BasketInit ==
  /\ baskets = <<>>
  /\ pc = "reading"
  /\ basketData = NoResult
  /\ divisionsByZero = 0

\* transactions.forEach, one row
ReadRow(transaction) ==
  /\ pc = "reading"
  /\ baskets' = AddToBaskets(baskets, transaction)
  /\ UNCHANGED <<pc, basketData, divisionsByZero, pageVars, restVars>>

\* one row of an input list of at most MaxRows rows
ProcessRow(transaction) ==
  /\ RowsRead(baskets) < MaxRows
  /\ ReadRow(transaction)

\* after the loop: basketArray, the two generators, return
ReturnResult ==
  /\ pc = "reading"
  /\ pc' = "done"
  /\ basketData' = [baskets |-> ObjectValues(baskets),
                    associationRules |-> generateAssociationRules(ObjectValues(baskets)),
                    frequentItemsets |-> generateFrequentItemsets(ObjectValues(baskets))]
  /\ divisionsByZero' = ZeroDivisors(ObjectValues(baskets))
  /\ UNCHANGED <<baskets, pageVars, restVars>>

\* ---------------------------------------------------------------- processSalesData
\* transaction.date: "2024-01-31", "2024-02-01", "2024-03-01"
SalesDates ==
  { <<50, 48, 50, 52, 45, 48, 49, 45, 51, 49>>,
    <<50, 48, 50, 52, 45, 48, 50, 45, 48, 49>>,
    <<50, 48, 50, 52, 45, 48, 51, 45, 48, 49>> }
\* transaction.total_amount: "7", "14"
Amounts == { <<55>>, <<49, 52>> }
SalesRows == [date : SalesDates, total_amount : Amounts]

\* parseFloat of a string of decimal digits
RECURSIVE parseFloat(_)
parseFloat(str) ==
  IF str = <<>> THEN 0
  ELSE 10 * parseFloat(SubSeq(str, 1, Len(str) - 1)) + (str[Len(str)] - 48)

\* new Date("YYYY-MM-DD"), in days since 1970-01-01 (the time value is
\* 86400000 times this number)
DateValue(date) ==
  LET year == parseFloat(SubSeq(date, 1, 4))
      month == parseFloat(SubSeq(date, 6, 7))
      day == parseFloat(SubSeq(date, 9, 10))
      y == IF month <= 2 THEN year - 1 ELSE year
      era == y \div 400
      yoe == y - era * 400
      mp == IF month > 2 THEN month - 3 ELSE month + 9
      doy == (153 * mp + 2) \div 5 + day - 1
      doe == yoe * 365 + (yoe \div 4) - (yoe \div 100) + doy
  IN era * 146097 + doe - 719468

\* new Date() of the run, in days since 1970-01-01
Today == DateValue(<<50, 48, 50, 52, 45, 48, 51, 45, 48, 50>>)

\* one iteration of transactions.forEach
AddToDailySales(obj, transaction) ==
  LET date == transaction.date
      amount == parseFloat(transaction.total_amount)
      created == IF HasKey(obj, date) THEN obj
                 ELSE Append(obj, [key |-> date,
                                   value |-> [date |-> date, sales |-> 0,
                                              transactions |-> 0, revenue |-> 0]])
      n == IndexOf(created, date)
  IN [created EXCEPT ![n].value.sales = @ + amount,
                     ![n].value.transactions = @ + 1,
                     ![n].value.revenue = @ + amount]

SalesRowsRead(obj) ==
  LET RECURSIVE Sum(_)
      Sum(i) == IF i = 0 THEN 0 ELSE obj[i].value.transactions + Sum(i - 1)
  IN Sum(Len(obj))

\* Object.values(dailySales), left in insertion order
InsertionOrder(obj) == ObjectValues(obj)

\* Object.values(dailySales).sort((a, b) => new Date(a.date) - new Date(b.date))
SortByDate(obj) ==
  SortDescending(ObjectValues(obj),
                 [i \in 1..Len(obj) |-> Rat(0 - DateValue(obj[i].value.date), 1)])

\* arr.slice(-n)
SliceLast(arr, n) == SubSeq(arr, IF Len(arr) > n THEN Len(arr) - n + 1 ELSE 1, Len(arr))

\* arr.reduce((sum, day) => sum + day.sales, 0)
RECURSIVE SumSales(_)
SumSales(arr) == IF arr = <<>> THEN 0 ELSE Head(arr).sales + SumSales(Tail(arr))
RECURSIVE SumRevenue(_)
SumRevenue(arr) == IF arr = <<>> THEN 0 ELSE Head(arr).revenue + SumRevenue(Tail(arr))
RECURSIVE SumTransactions(_)
SumTransactions(arr) ==
  IF arr = <<>> THEN 0 ELSE Head(arr).transactions + SumTransactions(Tail(arr))

LastDays == 7
ForecastDays == 30
\* salesArray.slice(-7).reduce(...) / 7
LastSales(salesArray) == Rat(SumSales(SliceLast(salesArray, LastDays)), LastDays)

\* trendFactor * seasonalFactor of day i, in units of 1/100000:
\* (1 + i * 0.002) * (1 + Math.sin((i * Math.PI) / 15) * 0.1), i = 1 .. 30
TrendSeasonal ==
  << 102283, 104484, 106513, 108291, 109747, 110825, 111484, 111704, 111482, 110833,
     109795, 108419, 106773, 104937, 103000, 101054, 99194, 97511, 96086, 94993,
     94290, 94017, 94197, 94833, 95907, 97382, 99205, 101305, 103600, 106000 >>

Max(a, b) == IF a > b THEN a ELSE b

\* the object pushed for day i
Prediction(lastSales, i) ==
  LET predicted == Rat(lastSales[1] * TrendSeasonal[i], lastSales[2] * 100000)
  IN [date |-> Today + i,
      predicted |-> Round(predicted),
      lowerBound |-> Round(Rat(predicted[1] * 17, predicted[2] * 20)),
      upperBound |-> Round(Rat(predicted[1] * 23, predicted[2] * 20)),
      confidence |-> Max(70, 95 - i * 1)]

processSalesData(obj) ==
  LET salesArray == SortByDate(obj)
      lastSales == LastSales(salesArray)
  IN [historicalData |-> salesArray,
      predictions |-> [i \in 1..ForecastDays |-> Prediction(lastSales, i)],
      totalRevenue |-> SumRevenue(salesArray),
      totalTransactions |-> SumTransactions(salesArray)]

NoSalesData ==
  [historicalData |-> <<>>, predictions |-> <<>>, totalRevenue |-> 0, totalTransactions |-> 0]

SalesInit ==
  /\ dailySales = <<>>
  /\ salesPc = "reading"
  /\ salesData = NoSalesData
  /\ salesInput = <<>>

\* transactions.forEach, one row
AddSale(transaction) ==
  /\ salesPc = "reading"
  /\ SalesRowsRead(dailySales) < MaxSalesRows
  /\ dailySales' = AddToDailySales(dailySales, transaction)
  /\ salesInput' = Append(salesInput, transaction)
  /\ UNCHANGED <<salesPc, salesData, basketVars, pageVars, forecastVars, recoVars, appVars>>

\* after the loop: sort, forecast, return
ReturnSales ==
  /\ salesPc = "reading"
  /\ salesPc' = "done"
  /\ salesData' = processSalesData(dailySales)
  /\ UNCHANGED <<dailySales, salesInput, basketVars, pageVars, forecastVars, recoVars, appVars>>

\* ---------------------------------------------------------------- the forecast backend
\* the uploads the backend can hold: the revenue of each day, oldest first;
\* the last day is the day before Today
Revenues == {100, 200}
\* longest history the backend holds, in days
MaxHistory == 3
Histories == {<<>>} \cup UNION { [1..n -> Revenues] : n \in 1..MaxHistory }

RECURSIVE SumSeq(_)
SumSeq(seq) == IF seq = <<>> THEN 0 ELSE Head(seq) + SumSeq(Tail(seq))

\* POST /sales-forecast on a non-empty history: the history, and one
\* forecast point per day of the horizon, ordered by date, around the recent
\* average, with an interval that widens with the day
BackendForecast(history, payload) ==
  LET level == SumSeq(history) \div Len(history)
  IN [historical_data |->
        [k \in 1..Len(history) |->
           [date |-> Today - Len(history) + k - 1, revenue |-> history[k], transactions |-> 1]],
      ensemble |->
        [k \in 1..payload.forecast_days |->
           [date |-> Today + k - 1, predicted_revenue |-> level,
            confidence_interval |-> [lower |-> level - k, upper |-> level + k]]]]

\* ---------------------------------------------------------------- apiService.generateSalesForecast
\* the payload of generateSalesForecast(options)
ForecastPayload(options) ==
  [forecast_days |-> IF options.forecastDays = 0 THEN 30 ELSE options.forecastDays]

\* ---------------------------------------------------------------- SalesForecasting.loadData
\* the timeframe buttons: value and label
Timeframes == {"30days", "60days", "90days"}
TimeframeDays == [timeframe \in Timeframes |->
                    IF timeframe = "30days" THEN 30
                    ELSE IF timeframe = "60days" THEN 60 ELSE 90]

\* forecastDays of loadData
ForecastDaysOf(timeframe) ==
  IF timeframe = "7days" THEN 7
  ELSE IF timeframe = "30days" THEN 30
  ELSE 90

NoForecast == [isNull |-> TRUE, historical |-> <<>>, predictions |-> <<>>]
NoMetrics == [isNull |-> TRUE, totalForecast |-> 0]

\* setError(`Failed to load sales forecast: ${err.message}`)
NoForecastReceived == "Failed to load sales forecast: No forecast data received from API"
ForecastRequestFailed == "Failed to load sales forecast: request failed"

\* processedForecast; the date of a point is the calendar day of item.date
ProcessForecast(data) ==
  [isNull |-> FALSE,
   historical |->
     [k \in 1..Len(data.historical_data) |->
        [date |-> data.historical_data[k].date,
         actual |-> data.historical_data[k].revenue,
         transactions |-> data.historical_data[k].transactions]],
   predictions |->
     [k \in 1..Len(data.ensemble) |->
        [date |-> data.ensemble[k].date,
         predicted |-> data.ensemble[k].predicted_revenue,
         lower_bound |-> data.ensemble[k].confidence_interval.lower,
         upper_bound |-> data.ensemble[k].confidence_interval.upper]]]

RECURSIVE SumPredicted(_)
SumPredicted(points) ==
  IF points = <<>> THEN 0 ELSE Head(points).predicted + SumPredicted(Tail(points))

ForecastInit ==
  /\ salesHistory \in Histories
  /\ selectedTimeframe = "30days"
  /\ forecastData = NoForecast
  /\ metrics = NoMetrics
  /\ forecastLoading = TRUE
  /\ forecastError = Null
  /\ forecastMounted = FALSE
  /\ forecastRequests = {}

\* loadData up to its await: setLoading(true), setError(null),
\* apiService.generateSalesForecast({ forecastDays })
StartForecastLoad(timeframe) ==
  /\ forecastLoading' = TRUE
  /\ forecastError' = Null
  /\ forecastRequests' = forecastRequests \cup
       { ForecastPayload([forecastDays |-> ForecastDaysOf(timeframe)]) }
  /\ UNCHANGED <<salesHistory, forecastData, metrics, basketVars, pageVars, salesVars, recoVars, appVars>>

\* the effect after the first render
MountForecast ==
  /\ ~forecastMounted
  /\ forecastMounted' = TRUE
  /\ StartForecastLoad(selectedTimeframe)
  /\ UNCHANGED selectedTimeframe

\* a timeframe button is clicked (the buttons are rendered only when the
\* page is not loading, has no error and has a forecast), and the effect runs
SelectTimeframe(timeframe) ==
  /\ ~forecastLoading
  /\ forecastError = Null
  /\ ~forecastData.isNull /\ ~metrics.isNull
  /\ timeframe # selectedTimeframe
  /\ selectedTimeframe' = timeframe
  /\ StartForecastLoad(timeframe)
  /\ UNCHANGED forecastMounted

\* the catch and finally blocks of loadData
ForecastFail(q, message) ==
  /\ forecastError' = message
  /\ forecastLoading' = FALSE
  /\ forecastRequests' = forecastRequests \ {q}
  /\ UNCHANGED <<salesHistory, selectedTimeframe, forecastData, metrics, forecastMounted,
                 basketVars, pageVars, salesVars, recoVars, appVars>>

\* the request is rejected
ForecastRequestFails(q) == ForecastFail(q, ForecastRequestFailed)

\* the backend holds no history and answers without data
ForecastWithoutData(q) ==
  /\ salesHistory = <<>>
  /\ ForecastFail(q, NoForecastReceived)

\* generateSalesForecast resolves: the forecast is processed and shown
ForecastArrives(q) ==
  /\ salesHistory # <<>>
  /\ forecastData' = ProcessForecast(BackendForecast(salesHistory, q))
  /\ metrics' = [isNull |-> FALSE, totalForecast |-> SumPredicted(forecastData'.predictions)]
  /\ forecastLoading' = FALSE
  /\ forecastRequests' = forecastRequests \ {q}
  /\ UNCHANGED <<salesHistory, selectedTimeframe, forecastError, forecastMounted,
                 basketVars, pageVars, salesVars, recoVars, appVars>>

\* ---------------------------------------------------------------- the recommendation backend
\* the products the backend can recommend
Catalog == {<<65>>, <<66>>, <<67>>}
\* longest list of recommendations of a response
MaxRecommendations == 2

\* a response body without a data field
WithoutData == [hasData |-> FALSE, recommendations |-> <<>>]

\* POST /get-recommendations: the responses the backend can give, none of
\* them naming a product of the request
BackendRecommendations(items) ==
  LET others == Catalog \ { items[i] : i \in 1..Len(items) }
      lists == UNION { [1..n -> others] : n \in 0..MaxRecommendations }
  IN { [hasData |-> TRUE,
        recommendations |->
          [k \in 1..Len(list) |-> [product |-> list[k], based_on |-> items]]] :
         list \in { l \in lists : \A i, j \in 1..Len(l) : i # j => l[i] # l[j] } }
     \cup {WithoutData}

\* ---------------------------------------------------------------- ProductRecommendations
\* what is typed into the input: "", " ", "A", " A", "B", "C "
Typed == { <<>>, <<32>>, <<65>>, <<32, 65>>, <<66>>, <<67, 32>> }

\* String.prototype.trim
RECURSIVE trim(_)
trim(str) ==
  IF str = <<>> THEN str
  ELSE IF Head(str) = 32 THEN trim(Tail(str))
  ELSE IF str[Len(str)] = 32 THEN trim(SubSeq(str, 1, Len(str) - 1))
  ELSE str

\* currentItems.includes(item)
Includes(items, item) == \E i \in 1..Len(items) : items[i] = item

\* currentItems.filter((i) => i !== item)
RECURSIVE Without(_, _)
Without(items, item) ==
  IF items = <<>> THEN <<>>
  ELSE IF Head(items) # item THEN <<Head(items)>> \o Without(Tail(items), item)
  ELSE Without(Tail(items), item)

EmptyCartError == "Please add at least one item to get recommendations"
RecommendationsFailed == "Failed to get recommendations: request failed"

NoAnswer == [kind |-> "none", result |-> WithoutData]

RecoInit ==
  /\ currentItems = <<>>
  /\ newItem = <<>>
  /\ recommendations = <<>>
  /\ recoLoading = FALSE
  /\ recoError = Null
  /\ recoRequests = {}
  /\ lastAnswer = NoAnswer

\* the input's onChange
TypeItem(text) ==
  /\ newItem' = text
  /\ UNCHANGED <<currentItems, recommendations, recoLoading, recoError, recoRequests,
                 lastAnswer, basketVars, pageVars, salesVars, forecastVars, appVars>>

\* addItem, from the Add button or the Enter key
addItem ==
  /\ IF trim(newItem) # <<>> /\ ~Includes(currentItems, trim(newItem))
     THEN /\ currentItems' = Append(currentItems, trim(newItem))
          /\ newItem' = <<>>
     ELSE UNCHANGED <<currentItems, newItem>>
  /\ UNCHANGED <<recommendations, recoLoading, recoError, recoRequests, lastAnswer,
                 basketVars, pageVars, salesVars, forecastVars, appVars>>

\* removeItem, from the button of a cart badge
removeItem(item) ==
  /\ Includes(currentItems, item)
  /\ currentItems' = Without(currentItems, item)
  /\ UNCHANGED <<newItem, recommendations, recoLoading, recoError, recoRequests,
                 lastAnswer, basketVars, pageVars, salesVars, forecastVars, appVars>>

\* result.data?.recommendations || [], with a mock product for an empty list
RecommendationsOrMock(result) ==
  IF result.hasData /\ result.recommendations # <<>> THEN result.recommendations
  ELSE << [product |-> <<67>>, based_on |-> <<>>] >>

\* result.data?.recommendations || []
RecommendationsOf(result) ==
  IF result.hasData THEN result.recommendations ELSE <<>>

\* getRecommendations up to its await; the button is disabled while the cart
\* is empty or a call is loading
getRecommendations ==
  /\ currentItems # <<>>
  /\ ~recoLoading
  /\ IF Len(currentItems) = 0
     THEN /\ recoError' = EmptyCartError
          /\ lastAnswer' = [kind |-> "emptyCart", result |-> WithoutData]
          /\ UNCHANGED <<recoLoading, recoRequests>>
     ELSE /\ recoLoading' = TRUE
          /\ recoError' = Null
          /\ recoRequests' = recoRequests \cup {[items |-> currentItems]}
          /\ lastAnswer' = [kind |-> "pending", result |-> WithoutData]
  /\ UNCHANGED <<currentItems, newItem, recommendations,
                 basketVars, pageVars, salesVars, forecastVars, appVars>>

\* the response arrives: setRecommendations, then finally
RecommendationsArrive(q, result) ==
  /\ recommendations' = RecommendationsOf(result)
  /\ recoLoading' = FALSE
  /\ recoRequests' = recoRequests \ {q}
  /\ lastAnswer' = [kind |-> "answer", result |-> result]
  /\ UNCHANGED <<currentItems, newItem, recoError,
                 basketVars, pageVars, salesVars, forecastVars, appVars>>

\* the request is rejected: catch, then finally
RecommendationsFail(q) ==
  /\ recoError' = RecommendationsFailed
  /\ recoLoading' = FALSE
  /\ recoRequests' = recoRequests \ {q}
  /\ lastAnswer' = [kind |-> "failed", result |-> WithoutData]
  /\ UNCHANGED <<currentItems, newItem, recommendations,
                 basketVars, pageVars, salesVars, forecastVars, appVars>>

\* ---------------------------------------------------------------- fileUpload utils
\* '.'
Dot == 46

\* str.toLowerCase() on ASCII names
toLowerCase(str) ==
  [i \in 1..Len(str) |-> IF str[i] \in 65..90 THEN str[i] + 32 ELSE str[i]]

\* str.lastIndexOf(ch): the last position of ch counted from 0, or -1
lastIndexOf(str, ch) ==
  LET places == { i \in 1..Len(str) : str[i] = ch }
  IN IF places = {} THEN -1
     ELSE (CHOOSE i \in places : \A j \in places : j <= i) - 1

\* str.substring(start): a negative start counts as 0
substring(str, start) ==
  SubSeq(str, (IF start < 0 THEN 0 ELSE start) + 1, Len(str))

allowedTypes ==
  { "text/csv", "application/vnd.ms-excel",
    "application/vnd.openxmlformats-officedocument.spreadsheetml.sheet" }

\* '.csv', '.xls', '.xlsx'
allowedExtensions ==
  { <<46, 99, 115, 118>>, <<46, 120, 108, 115>>, <<46, 120, 108, 115, 120>> }

maxSize == 10 * 1024 * 1024

TypeMessage == "Please upload a CSV or Excel file (.csv, .xls, .xlsx)"
SizeMessage == "File size must be less than 10MB"
EmptyMessage == "File cannot be empty"

validateFile(file) ==
  LET fileExtension == substring(toLowerCase(file.name), lastIndexOf(file.name, Dot))
      typeErrors == IF file.type \notin allowedTypes /\ fileExtension \notin allowedExtensions
                    THEN <<TypeMessage>> ELSE <<>>
      sizeErrors == IF file.size > maxSize THEN <<SizeMessage>> ELSE <<>>
      emptyErrors == IF file.size = 0 THEN <<EmptyMessage>> ELSE <<>>
      errors == typeErrors \o sizeErrors \o emptyErrors
  IN [isValid |-> Len(errors) = 0, errors |-> errors]

\* file names: a.csv, a.CSV, a.xls, a.xlsx, a.txt, csv, a.csv.txt
FileNames ==
  { <<97, 46, 99, 115, 118>>, <<97, 46, 67, 83, 86>>, <<97, 46, 120, 108, 115>>,
    <<97, 46, 120, 108, 115, 120>>, <<97, 46, 116, 120, 116>>, <<99, 115, 118>>,
    <<97, 46, 99, 115, 118, 46, 116, 120, 116>> }

\* the MIME types a browser reports ("" when it knows none)
FileTypes == { "text/csv", "application/vnd.ms-excel", "text/plain", "" }

FileSizes == { 0, 1, maxSize - 1, maxSize, maxSize + 1 }

Files == [name : FileNames, type : FileTypes, size : FileSizes]

NoValidation == [isValid |-> FALSE, errors |-> <<"not validated">>]

ValidateInit ==
  /\ chosenFile \in Files
  /\ validation = NoValidation

\* a component calls validateFile on the chosen file
Validate ==
  /\ validation = NoValidation
  /\ validation' = validateFile(chosenFile)
  /\ UNCHANGED <<chosenFile, uploadVars, dashVars, csvVars, analysisVars>>

\* no file is being checked
ValidateRest ==
  /\ chosenFile = [name |-> <<97, 46, 99, 115, 118>>, type |-> "text/csv", size |-> 1]
  /\ validation = NoValidation

\* FILE_STATUS
PENDING == "pending"
UPLOADING == "uploading"
SUCCESS == "success"
ERROR == "error"

\* bound: the files dropped on the two upload UIs together
MaxFiles == 2

\* a valid CSV file and a text file that fails validation
ValidCsv == [name |-> <<97, 46, 99, 115, 118>>, type |-> "text/csv", size |-> 1]
TextFile == [name |-> <<97, 46, 116, 120, 116>>, type |-> "text/plain", size |-> 1]
DroppedFiles == { ValidCsv, TextFile }

\* the progress simulateFileUpload reports: Math.round(progress)
ProgressChoices == { 50, 100 }

\* what uploadData and simulateFileUpload reject with
FailedToFetch == "Failed to fetch"
ServerRefused == "HTTP error! status: 500"
SimulatedFailure == "Upload failed. Please try again."

\* the answer of POST /upload-data
UploadResult == [message |-> "File uploaded successfully"]

\* { ...f, ...updates }
Merge(f, updates) ==
  [k \in (DOMAIN f) \cup (DOMAIN updates) |->
     IF k \in DOMAIN updates THEN updates[k] ELSE f[k]]

\* FileUploadContext: the updaters given to setUploadedFiles
addFile(prev, file) == Append(prev, file)

upsertFile(prev, fileId, updates) ==
  IF \E i \in 1..Len(prev) : prev[i].id = fileId
  THEN [i \in 1..Len(prev) |->
          IF prev[i].id = fileId THEN Merge(prev[i], updates) ELSE prev[i]]
  ELSE Append(prev, Merge([id |-> fileId], updates))

updateFile(prev, fileId, updates) ==
  [i \in 1..Len(prev) |->
     IF prev[i].id = fileId THEN Merge(prev[i], updates) ELSE prev[i]]

removeFile(prev, fileId) ==
  LET Other(f) == f.id # fileId
  IN SelectSeq(prev, Other)

\* UploadDialog: prev.map(f => f.id === fileObj.id ? {...f, ...} : f)
DialogUpdateEvery(prev, fileId, updates) ==
  [i \in 1..Len(prev) |-> Merge(prev[i], updates)]

DialogUpdate(prev, fileId, updates) ==
  [i \in 1..Len(prev) |->
     IF prev[i].id = fileId THEN Merge(prev[i], updates) ELSE prev[i]]

\* the fileObj handleFiles builds; the id (Date.now() and Math.random()) is
\* modelled as a fresh number
FileObj(fileId, file) ==
  LET result == validateFile(file)
  IN [id |-> fileId, file |-> file, name |-> file.name, size |-> file.size,
      status |-> IF result.isValid THEN PENDING ELSE ERROR,
      progress |-> 0, errors |-> result.errors]

\* uploadedFiles.filter(file => file.status === SUCCESS).length > 0
HasSuccess(files) == \E i \in 1..Len(files) : files[i].status = SUCCESS

HasId(files, fileId) == \E i \in 1..Len(files) : files[i].id = fileId

Waiting(fileId) == \E u \in uploads : u.id = fileId

UploadInit ==
  /\ uploadedFiles = <<>>
  /\ showAnalysisSelection = FALSE
  /\ isOpen = FALSE
  /\ dialogFiles = <<>>
  /\ uploads = {}
  /\ nextId = 1
  /\ sentToBackend = {}
  /\ removedIds = {}

\* DataUpload.handleFiles for one file: addFile, then uploadFile up to its
\* await; the effect on uploadedFiles sets showAnalysisSelection
handleFiles(file) ==
  /\ nextId <= MaxFiles
  /\ LET fileObj == FileObj(nextId, file)
         added == addFile(uploadedFiles, fileObj)
     IN IF validateFile(file).isValid
        THEN /\ uploadedFiles' =
                  updateFile(updateFile(added, fileObj.id, [status |-> UPLOADING]),
                             fileObj.id, [progress |-> 10])
             /\ uploads' = uploads \cup {[id |-> fileObj.id, ui |-> "page", progress |-> 10]}
        ELSE /\ uploadedFiles' = added
             /\ UNCHANGED uploads
  /\ nextId' = nextId + 1
  /\ showAnalysisSelection' = HasSuccess(uploadedFiles')
  /\ UNCHANGED <<isOpen, dialogFiles, sentToBackend, removedIds, validateVars, dashVars, csvVars, analysisVars>>

\* DataUpload.uploadFile after apiService.uploadData resolved
UploadResolves(u) ==
  /\ u.ui = "page"
  /\ uploadedFiles' =
       updateFile(updateFile(uploadedFiles, u.id, [progress |-> 90]), u.id,
                  [status |-> SUCCESS, progress |-> 100, backendResponse |-> UploadResult])
  /\ sentToBackend' = sentToBackend \cup {u.id}
  /\ uploads' = uploads \ {u}
  /\ showAnalysisSelection' = HasSuccess(uploadedFiles')
  /\ UNCHANGED <<isOpen, dialogFiles, nextId, removedIds, validateVars, dashVars, csvVars, analysisVars>>

\* DataUpload.uploadFile: the catch block
UploadRejects(u, message) ==
  /\ u.ui = "page"
  /\ uploadedFiles' =
       updateFile(uploadedFiles, u.id, [status |-> ERROR, errors |-> <<message>>])
  /\ uploads' = uploads \ {u}
  /\ showAnalysisSelection' = HasSuccess(uploadedFiles')
  /\ UNCHANGED <<isOpen, dialogFiles, nextId, sentToBackend, removedIds, validateVars,
                 dashVars, csvVars, analysisVars>>

\* DataUpload.handleRemoveFile: the Remove button of the FileManager
handleRemoveFile(fileId) ==
  /\ HasId(uploadedFiles, fileId)
  /\ uploadedFiles' = removeFile(uploadedFiles, fileId)
  /\ removedIds' = removedIds \cup {[id |-> fileId, waiting |-> Waiting(fileId)]}
  /\ showAnalysisSelection' = HasSuccess(uploadedFiles')
  /\ UNCHANGED <<isOpen, dialogFiles, uploads, nextId, sentToBackend, validateVars,
                 dashVars, csvVars, analysisVars>>

\* Dialog onOpenChange
setIsOpen(open) ==
  /\ open # isOpen
  /\ isOpen' = open
  /\ UNCHANGED <<uploadedFiles, showAnalysisSelection, dialogFiles, uploads, nextId,
                 sentToBackend, removedIds, validateVars, dashVars, csvVars, analysisVars>>

\* UploadDialog.handleFiles for one file, with uploadFile up to its await
dialogHandleFiles(file) ==
  /\ isOpen
  /\ nextId <= MaxFiles
  /\ LET fileObj == FileObj(nextId, file)
         added == Append(dialogFiles, fileObj)
     IN IF validateFile(file).isValid
        THEN /\ dialogFiles' = DialogUpdate(added, fileObj.id, [status |-> UPLOADING])
             /\ uploads' = uploads \cup {[id |-> fileObj.id, ui |-> "dialog", progress |-> 0]}
        ELSE /\ dialogFiles' = added
             /\ UNCHANGED uploads
  /\ nextId' = nextId + 1
  /\ UNCHANGED <<uploadedFiles, showAnalysisSelection, isOpen, sentToBackend, removedIds,
                 validateVars, dashVars, csvVars, analysisVars>>

\* simulateFileUpload: a tick of the interval calls onProgress
DialogProgress(u, progress) ==
  /\ u.ui = "dialog"
  /\ u.progress < progress
  /\ dialogFiles' = DialogUpdate(dialogFiles, u.id, [progress |-> progress])
  /\ uploads' = (uploads \ {u}) \cup {[u EXCEPT !.progress = progress]}
  /\ UNCHANGED <<uploadedFiles, showAnalysisSelection, isOpen, nextId, sentToBackend,
                 removedIds, validateVars, dashVars, csvVars, analysisVars>>

\* simulateFileUpload resolves (Math.random() > 0.1): the file is marked
\* SUCCESS and the page's handleUploadComplete runs
SimulatedUploadResolves(u) ==
  /\ u.ui = "dialog"
  /\ u.progress = 100
  /\ dialogFiles' = DialogUpdate(dialogFiles, u.id, [status |-> SUCCESS, progress |-> 100])
  /\ showAnalysisSelection' = TRUE
  /\ uploads' = uploads \ {u}
  /\ UNCHANGED <<uploadedFiles, isOpen, nextId, sentToBackend, removedIds, validateVars,
                 dashVars, csvVars, analysisVars>>

\* simulateFileUpload rejects
SimulatedUploadRejects(u) ==
  /\ u.ui = "dialog"
  /\ u.progress = 100
  /\ dialogFiles' = DialogUpdate(dialogFiles, u.id,
                                 [status |-> ERROR, errors |-> <<SimulatedFailure>>])
  /\ uploads' = uploads \ {u}
  /\ UNCHANGED <<uploadedFiles, showAnalysisSelection, isOpen, nextId, sentToBackend,
                 removedIds, validateVars, dashVars, csvVars, analysisVars>>

\* UploadDialog.removeFile: the X button of a row
dialogRemoveFile(fileId) ==
  /\ isOpen
  /\ HasId(dialogFiles, fileId)
  /\ dialogFiles' = removeFile(dialogFiles, fileId)
  /\ UNCHANGED <<uploadedFiles, showAnalysisSelection, isOpen, uploads, nextId,
                 sentToBackend, removedIds, validateVars, dashVars, csvVars, analysisVars>>

\* ---------------------------------------------------------------- App, Sidebar and Dashboard
\* the cases of the switch in App.renderPage
HandledPages ==
  { "dashboard", "data-upload", "sales-forecasting", "market-basket-analysis",
    "product-recommendations", "settings" }

\* the ids of navigationItems
SidebarPages ==
  { "dashboard", "data-upload", "sales-forecasting", "market-basket-analysis",
    "product-recommendations", "settings" }

\* renderPage returns the Dashboard: case "dashboard" and default
RendersDashboard(page) == page \notin (HandledPages \ {"dashboard"})

\* bound: the uploads started in the dialogs of the Sidebar and the Dashboard
MaxDialogUploads == 1

\* the values of dashboardData; hasData is "undefined" where the object has
\* no such field
InitialDashboardData == [hasData |-> "undefined", content |-> "initial"]
EmptyDashboardData == [hasData |-> "false", content |-> "empty"]
SummaryDashboardData == [hasData |-> "true", content |-> "summary"]
FailedDashboardData == [hasData |-> "undefined", content |-> "zero"]
ResetDashboardData == [hasData |-> "false", content |-> "reset"]

\* a value in a condition
Truthy(x) == x = "true"

\* the Dashboard shows its cards: neither the spinner nor the empty state
ShowsCards == dashMounted /\ ~dashLoading /\ Truthy(dashboardData.hasData)

\* the backend after POST /reset-data
ResetBackend == [has_data |-> FALSE, rules |-> <<>>]

\* a file uploaded from the Data Upload page
UploadedCsv ==
  [id |-> 0, file |-> ValidCsv, name |-> ValidCsv.name, size |-> ValidCsv.size,
   status |-> SUCCESS, progress |-> 100, errors |-> <<>>, backendResponse |-> UploadResult]

\* what belongs to a Dashboard that is unmounted no longer reaches its state
Detach(waiting) ==
  { IF x.owner = "dashboard" THEN [x EXCEPT !.attached = FALSE] ELSE x : x \in waiting }

DashInit ==
  /\ currentPage = "dashboard"
  /\ isMobileMenuOpen = FALSE
  /\ dashMounted = FALSE
  /\ dashboardData = InitialDashboardData
  /\ dashLoading = TRUE
  /\ dashLoads = 0
  /\ dialogUploads = {}
  /\ uploadsStarted = 0
  /\ timers = {}
  /\ resets = {}
  /\ runOrigins = {}
  /\ resetOrigins = {}
  /\ clearOrigins = {}
  /\ lastStep = "none"

\* the Dashboard is replaced by another page
Unmounts(page) == dashMounted /\ ~RendersDashboard(page)

\* setCurrentPage(page), with the uploads that still wait in the dialogs
setCurrentPage(page, waiting) ==
  /\ currentPage' = page
  /\ IF Unmounts(page)
     THEN /\ dashMounted' = FALSE
          /\ dashLoads' = 0
          /\ dialogUploads' = Detach(waiting)
          /\ timers' = Detach(timers)
          /\ resets' = Detach(resets)
     ELSE /\ dialogUploads' = waiting
          /\ UNCHANGED <<dashMounted, dashLoads, timers, resets>>

\* the Dashboard mounts: its state is created and its effect starts
\* loadDashboardData
MountDashboard ==
  /\ RendersDashboard(currentPage)
  /\ ~dashMounted
  /\ dashMounted' = TRUE
  /\ dashboardData' = InitialDashboardData
  /\ dashLoading' = TRUE
  /\ dashLoads' = 1
  /\ lastStep' = "MountDashboard"
  /\ UNCHANGED <<currentPage, isMobileMenuOpen, dialogUploads, uploadsStarted, timers,
                 resets, runOrigins, resetOrigins, clearOrigins, validateVars, uploadVars,
                 csvVars, analysisVars>>

\* Sidebar.handleNavigation: a navigation item is clicked
SidebarNavigation(pageId) ==
  /\ setCurrentPage(pageId, dialogUploads)
  /\ isMobileMenuOpen' = FALSE
  /\ lastStep' = "SidebarNavigation"
  /\ UNCHANGED <<dashboardData, dashLoading, uploadsStarted, runOrigins, resetOrigins,
                 clearOrigins, validateVars, uploadVars, csvVars, analysisVars>>

\* the menu button of the Sidebar
ToggleMobileMenu ==
  /\ isMobileMenuOpen' = ~isMobileMenuOpen
  /\ lastStep' = "ToggleMobileMenu"
  /\ UNCHANGED <<currentPage, dashMounted, dashboardData, dashLoading, dashLoads,
                 dialogUploads, uploadsStarted, timers, resets, runOrigins, resetOrigins,
                 clearOrigins, validateVars, uploadVars, csvVars, analysisVars>>

\* the Upload CSV File button of the empty Dashboard: handleNavigation("upload")
UploadCsvButton ==
  /\ dashMounted
  /\ ~dashLoading
  /\ ~Truthy(dashboardData.hasData)
  /\ setCurrentPage("upload", dialogUploads)
  /\ lastStep' = "UploadCsvButton"
  /\ UNCHANGED <<isMobileMenuOpen, dashboardData, dashLoading, uploadsStarted, runOrigins,
                 resetOrigins, clearOrigins, validateVars, uploadVars, csvVars, analysisVars>>

\* loadDashboardData after getDataSummary resolved
DashboardLoadArrives ==
  /\ dashLoads > 0
  /\ dashboardData' = IF dataset.has_data THEN SummaryDashboardData ELSE EmptyDashboardData
  /\ dashLoading' = FALSE
  /\ dashLoads' = dashLoads - 1
  /\ lastStep' = "DashboardLoadArrives"
  /\ UNCHANGED <<currentPage, isMobileMenuOpen, dashMounted, dialogUploads, uploadsStarted,
                 timers, resets, runOrigins, resetOrigins, clearOrigins, validateVars,
                 uploadVars, csvVars, analysisVars>>

\* loadDashboardData: the catch block
DashboardLoadFails ==
  /\ dashLoads > 0
  /\ dashboardData' = FailedDashboardData
  /\ dashLoading' = FALSE
  /\ dashLoads' = dashLoads - 1
  /\ lastStep' = "DashboardLoadFails"
  /\ UNCHANGED <<currentPage, isMobileMenuOpen, dashMounted, dialogUploads, uploadsStarted,
                 timers, resets, runOrigins, resetOrigins, clearOrigins, validateVars,
                 uploadVars, csvVars, analysisVars>>

\* refreshDashboard up to its await: window.confirm, setLoading(true),
\* apiService.resetData()
refreshDashboard(origin, attached, confirmed) ==
  /\ runOrigins' = runOrigins \cup {origin}
  /\ IF confirmed
     THEN /\ dashLoading' = (IF attached THEN TRUE ELSE dashLoading)
          /\ resets' = resets \cup {[owner |-> "dashboard", origin |-> origin,
                                     attached |-> attached]}
          /\ resetOrigins' = resetOrigins \cup {origin}
          /\ lastStep' = "confirmed"
     ELSE /\ UNCHANGED <<dashLoading, resets, resetOrigins>>
          /\ lastStep' = "declined"

\* the Reset Data button
ResetDataButton(confirmed) ==
  /\ ShowsCards
  /\ refreshDashboard("button", TRUE, confirmed)
  /\ UNCHANGED <<currentPage, isMobileMenuOpen, dashMounted, dashboardData, dashLoads,
                 dialogUploads, uploadsStarted, timers, clearOrigins, validateVars,
                 uploadVars, csvVars, analysisVars>>

\* the timer of handleUploadComplete fires
RefreshTimerFires(t, confirmed) ==
  /\ timers' = timers \ {t}
  /\ refreshDashboard("upload", t.attached, confirmed)
  /\ UNCHANGED <<currentPage, isMobileMenuOpen, dashMounted, dashboardData, dashLoads,
                 dialogUploads, uploadsStarted, clearOrigins, validateVars, uploadVars,
                 csvVars, analysisVars>>

\* refreshDashboard after resetData resolved: clearAllFiles, setDashboardData,
\* setLoading(false); the effect on uploadedFiles then starts loadDashboardData
ResetResolves(r) ==
  /\ resets' = resets \ {r}
  /\ dataset' = ResetBackend
  /\ uploadedFiles' = <<>>
  /\ clearOrigins' = clearOrigins \cup {r.origin}
  /\ dashboardData' = (IF r.attached THEN ResetDashboardData ELSE dashboardData)
  /\ IF dashMounted
     THEN dashLoading' = TRUE /\ dashLoads' = dashLoads + 1
     ELSE UNCHANGED <<dashLoading, dashLoads>>
  /\ showAnalysisSelection' = (IF currentPage = "data-upload" THEN FALSE
                               ELSE showAnalysisSelection)
  /\ lastStep' = "ResetResolves"
  /\ UNCHANGED <<currentPage, isMobileMenuOpen, dashMounted, dialogUploads, uploadsStarted,
                 timers, runOrigins, resetOrigins, validateVars, isOpen, dialogFiles,
                 uploads, nextId, sentToBackend, removedIds, minSupport, minConfidence,
                 loading, error, associationRules, requests, started, appliedRequest,
                 basketVars, salesVars, forecastVars, recoVars, csvVars>>

\* refreshDashboard: the catch block, alert and setLoading(false)
ResetRejects(r) ==
  /\ resets' = resets \ {r}
  /\ dashLoading' = (IF r.attached THEN FALSE ELSE dashLoading)
  /\ lastStep' = "resetFailed"
  /\ UNCHANGED <<currentPage, isMobileMenuOpen, dashMounted, dashboardData, dashLoads,
                 dialogUploads, uploadsStarted, timers, runOrigins, resetOrigins,
                 clearOrigins, validateVars, uploadVars, csvVars, analysisVars>>

\* a valid file is dropped on the UploadDialog of the Sidebar (Quick Upload)
\* or of the Dashboard's FileStatusOverview
DialogUploadStarts(owner) ==
  /\ uploadsStarted < MaxDialogUploads
  /\ owner = "dashboard" => ShowsCards
  /\ uploadsStarted' = uploadsStarted + 1
  /\ dialogUploads' = dialogUploads \cup
       {[id |-> uploadsStarted + 1, owner |-> owner, attached |-> TRUE]}
  /\ lastStep' = "DialogUploadStarts"
  /\ UNCHANGED <<currentPage, isMobileMenuOpen, dashMounted, dashboardData, dashLoading,
                 dashLoads, timers, resets, runOrigins, resetOrigins, clearOrigins,
                 validateVars, uploadVars, csvVars, analysisVars>>

\* the upload succeeds and the dialog calls onUploadComplete: of the Sidebar,
\* setCurrentPage("data-upload"); of the Dashboard, handleUploadComplete
DialogUploadCompletes(u) ==
  /\ IF u.owner = "sidebar"
     THEN setCurrentPage("data-upload", dialogUploads \ {u})
     ELSE /\ dialogUploads' = dialogUploads \ {u}
          /\ timers' = timers \cup {[id |-> u.id, owner |-> "dashboard",
                                     attached |-> u.attached]}
          /\ UNCHANGED <<currentPage, dashMounted, dashLoads, resets>>
  /\ lastStep' = "DialogUploadCompletes"
  /\ UNCHANGED <<isMobileMenuOpen, dashboardData, dashLoading, uploadsStarted, runOrigins,
                 resetOrigins, clearOrigins, validateVars, uploadVars, csvVars, analysisVars>>

\* the upload fails: the dialog marks the file and calls nothing
DialogUploadFails(u) ==
  /\ dialogUploads' = dialogUploads \ {u}
  /\ lastStep' = "DialogUploadFails"
  /\ UNCHANGED <<currentPage, isMobileMenuOpen, dashMounted, dashboardData, dashLoading,
                 dashLoads, uploadsStarted, timers, resets, runOrigins, resetOrigins,
                 clearOrigins, validateVars, uploadVars, csvVars, analysisVars>>

\* ---------------------------------------------------------------- loadCSVData
\* str.trim(): spaces, tabs and line ends
RECURSIVE TrimWhitespace(_)
TrimWhitespace(str) ==
  IF str = <<>> THEN str
  ELSE IF Head(str) \in {9, 10, 13, 32} THEN TrimWhitespace(Tail(str))
  ELSE IF str[Len(str)] \in {9, 10, 13, 32} THEN TrimWhitespace(SubSeq(str, 1, Len(str) - 1))
  ELSE str

\* values[index] where values has no such element
Undefined == <<-1>>

\* row[header] = value
SetKey(obj, k, v) ==
  IF HasKey(obj, k)
  THEN [i \in 1..Len(obj) |-> IF obj[i].key = k THEN [key |-> k, value |-> v] ELSE obj[i]]
  ELSE Append(obj, [key |-> k, value |-> v])

RECURSIVE RowOf(_, _, _, _)
RowOf(headers, values, index, row) ==
  IF index > Len(headers) THEN row
  ELSE RowOf(headers, values, index + 1,
             SetKey(row, headers[index],
                    IF index <= Len(values) THEN values[index] ELSE Undefined))

parseCSV(csvText) ==
  LET lines == Split(TrimWhitespace(csvText), <<10>>)
      headers == Split(lines[1], <<44>>)
  IN [i \in 1..(Len(lines) - 1) |-> RowOf(headers, Split(lines[i + 1], <<44>>), 1, <<>>)]

\* n.toString() for n >= 0
RECURSIVE ToStr(_)
ToStr(n) == IF n < 10 THEN <<48 + n>> ELSE ToStr(n \div 10) \o <<48 + (n % 10)>>

\* str.padStart(length, '0')
RECURSIVE padStart(_, _)
padStart(str, length) == IF Len(str) >= length THEN str ELSE padStart(<<48>> \o str, length)

\* Math.ceil(n / d) for n >= 0
CeilDiv(n, d) == (n + d - 1) \div d

\* x.toFixed(2) for the rational x >= 0
toFixed2(x) ==
  LET cents == Round(Rat(x[1] * 100, x[2]))
  IN ToStr(cents \div 100) \o <<46>> \o padStart(ToStr(cents % 100), 2)

\* the rows generateFallbackData makes
FallbackRows == 100

\* what Math.random() returns, as a rational; one draw stands for all the
\* draws of a call
RandomDraws == { Rat(0, 1), Rat(1, 4), Rat(1, 2), Rat(9, 10) }

FallbackProducts == << "Wireless Headphones", "Coffee Maker", "Yoga Mat", "Office Chair" >>
FallbackCategories == << "Electronics", "Appliances", "Fitness", "Furniture" >>
FallbackSegments ==
  << "Tech Enthusiasts", "Home & Office", "Fitness Focused", "Occasional Buyers" >>
FallbackStores == << "Store A", "Store B", "Store C" >>

generateFallbackData(random) ==
  [i \in 1..FallbackRows |->
     [transaction_id |-> <<84, 88, 78>> \o padStart(ToStr(i), 3),
      date |-> <<50, 48, 50, 52, 45>> \o padStart(ToStr(CeilDiv(i, 30)), 2) \o <<45>>
                 \o padStart(ToStr((i % 30) + 1), 2),
      customer_id |-> <<67, 85, 83, 84>> \o padStart(ToStr(CeilDiv(i, 2)), 3),
      product_name |-> FallbackProducts[(i % 4) + 1],
      category |-> FallbackCategories[(i % 4) + 1],
      quantity |-> CeilDiv(random[1] * 3, random[2]),
      unit_price |-> toFixed2(Rat(random[1] * 200 + 20 * random[2], random[2])),
      total_amount |-> toFixed2(Rat(random[1] * 300 + 20 * random[2], random[2])),
      customer_segment |-> FallbackSegments[(i % 4) + 1],
      store_location |-> FallbackStores[(i % 3) + 1]]]

\* what the server can answer to GET /data/retail_transactions.csv:
\* "id,date\n1,d\n2,e\n", "id,date", "", "<html>Not Found</html>",
\* "id,date\n1", "Internal Server Error"
Bodies ==
  { <<105, 100, 44, 100, 97, 116, 101, 10, 49, 44, 100, 10, 50, 44, 101, 10>>,
    <<105, 100, 44, 100, 97, 116, 101>>,
    <<>>,
    <<60, 104, 116, 109, 108, 62, 78, 111, 116, 32, 70, 111, 117, 110, 100, 60, 47, 104, 116, 109, 108, 62>>,
    <<105, 100, 44, 100, 97, 116, 101, 10, 49>>,
    <<73, 110, 116, 101, 114, 110, 97, 108, 32, 83, 101, 114, 118, 101, 114, 32, 69, 114, 114, 111, 114>> }

Statuses == { 200, 404, 500 }

\* response.ok
Ok(status) == status \in 200..299

Responses == [status : Statuses, body : Bodies]

NoResponse == [status |-> 0, body |-> <<>>]
NoReturn == [by |-> "none", rows |-> <<>>]

CsvInit ==
  /\ csvPc = "idle"
  /\ csvResponse = NoResponse
  /\ csvReturn = NoReturn

\* loadCSVData up to await fetch(...)
loadCSVData ==
  /\ csvPc = "idle"
  /\ csvPc' = "fetch"
  /\ UNCHANGED <<csvResponse, csvReturn, validateVars, uploadVars, dashVars, analysisVars>>

\* the catch block: return generateFallbackData()
ReturnFallback(random) ==
  /\ csvReturn' = [by |-> "generateFallbackData", rows |-> generateFallbackData(random)]
  /\ csvPc' = "done"

\* fetch rejects: the network is down
FetchRejects(random) ==
  /\ csvPc = "fetch"
  /\ ReturnFallback(random)
  /\ UNCHANGED <<csvResponse, validateVars, uploadVars, dashVars, analysisVars>>

\* fetch resolves with a Response, of any status
FetchResolves(response) ==
  /\ csvPc = "fetch"
  /\ csvResponse' = response
  /\ csvPc' = "text"
  /\ UNCHANGED <<csvReturn, validateVars, uploadVars, dashVars, analysisVars>>

\* response.text() rejects: the body cannot be read
TextRejects(random) ==
  /\ csvPc = "text"
  /\ ReturnFallback(random)
  /\ UNCHANGED <<csvResponse, validateVars, uploadVars, dashVars, analysisVars>>

\* response.text() resolves: return parseCSV(csvText)
TextResolves ==
  /\ csvPc = "text"
  /\ csvReturn' = [by |-> "parseCSV", rows |-> parseCSV(csvResponse.body)]
  /\ csvPc' = "done"
  /\ UNCHANGED <<csvResponse, validateVars, uploadVars, dashVars, analysisVars>>

\* the upload UIs, the Dashboard and loadCSVData at rest
AppRest ==
  /\ ValidateRest
  /\ UploadInit
  /\ DashInit
  /\ CsvInit

AppInit == AppRest

\* every other part at rest
RestInit ==
  /\ SalesInit
  /\ ForecastInit
  /\ salesHistory = <<>>
  /\ RecoInit
  /\ AppInit

\* ---------------------------------------------------------------- specifications
\* the basket pipeline on every list of at most MaxRows rows
Init ==
  /\ BasketInit
  /\ PageInit
  /\ dataset = [has_data |-> FALSE, rules |-> <<>>]
  /\ RestInit

Next ==
  \/ \E transaction \in Transactions : ProcessRow(transaction)
  \/ ReturnResult

Spec == Init /\ [][Next]_vars

\* ---------------------------------------------------------------- the documented datasets
\* "bread", "butter", "milk"
Bread == <<98, 114, 101, 97, 100>>
Butter == <<98, 117, 116, 116, 101, 114>>
Milk == <<109, 105, 108, 107>>
\* customer_id "1" .. "10"
CustomerId(n) == IF n < 10 THEN <<48 + n>> ELSE <<48 + (n \div 10), 48 + (n % 10)>>

\* the five transactions of the association rule example
BreadButterMilk == << {Bread, Butter, Milk}, {Bread, Butter}, {Bread, Milk},
                      {Butter, Milk}, {Bread, Butter, Milk} >>
\* {A, B} bought ten times, nothing else
TenTimesAB == [n \in 1..10 |-> {<<65>>, <<66>>}]

Datasheets == {BreadButterMilk, TenTimesAB}

\* the rows of the documented datasets: transaction n is the basket of
\* customer n on date "d"
ExampleRows ==
  { [customer_id |-> CustomerId(n), date |-> <<100>>, product_name |-> p] :
      n \in 1..10, p \in {Bread, Butter, Milk, <<65>>, <<66>>} }

\* obj holds exactly the transactions of sheet, in their order
HoldsDataset(obj, sheet) ==
  /\ Len(obj) = Len(sheet)
  /\ \A n \in 1..Len(obj) :
       /\ obj[n].key = CustomerId(n) \o <<95>> \o <<100>>
       /\ \A i, j \in 1..Len(obj[n].value.products) :
            i # j => obj[n].value.products[i] # obj[n].value.products[j]
       /\ { obj[n].value.products[i] : i \in 1..Len(obj[n].value.products) } = sheet[n]

\* obj holds the first rows of a list of rows that spells sheet: the
\* transactions in order, each product of a transaction once, in any order
ReadsDataset(obj, sheet) ==
  /\ Len(obj) <= Len(sheet)
  /\ \A n \in 1..Len(obj) :
       /\ obj[n].key = CustomerId(n) \o <<95>> \o <<100>>
       /\ \A i, j \in 1..Len(obj[n].value.products) :
            i # j => obj[n].value.products[i] # obj[n].value.products[j]
       /\ { obj[n].value.products[i] : i \in 1..Len(obj[n].value.products) } \subseteq sheet[n]
       /\ n < Len(obj) =>
            { obj[n].value.products[i] : i \in 1..Len(obj[n].value.products) } = sheet[n]

\* transactions.forEach on a list of rows that spells a documented dataset
ReadExampleRow(transaction) ==
  /\ ReadRow(transaction)
  /\ \E sheet \in Datasheets : ReadsDataset(baskets', sheet)

\* the list is read to its end
ReturnExampleResult ==
  /\ \E sheet \in Datasheets : HoldsDataset(baskets, sheet)
  /\ ReturnResult

NextExample ==
  \/ \E transaction \in ExampleRows : ReadExampleRow(transaction)
  \/ ReturnExampleResult

SpecExample == Init /\ [][NextExample]_vars

\* the page against every backend dataset
InitPage ==
  /\ BasketInit
  /\ PageInit
  /\ dataset \in Datasets
  /\ RestInit

NextPage ==
  \/ Mount
  \/ \E value \in SupportChoices : ChangeMinSupport(value)
  \/ \E value \in ConfidenceChoices : ChangeMinConfidence(value)
  \/ \E q \in requests : SummaryHasData(q)
  \/ \E q \in requests : SummaryNoData(q)
  \/ \E q \in requests : \E message \in {NetworkError, ServerError} : RequestFails(q, message)
  \/ \E q \in requests : AnalysisArrives(q)

SpecPage == InitPage /\ [][NextPage]_vars

\* processSalesData on every list of at most MaxSalesRows rows
NextSales ==
  \/ \E transaction \in SalesRows : AddSale(transaction)
  \/ ReturnSales

SpecSales == Init /\ [][NextSales]_vars

\* the Sales Forecasting page against every backend history
InitForecast ==
  /\ BasketInit
  /\ PageInit
  /\ dataset = [has_data |-> FALSE, rules |-> <<>>]
  /\ SalesInit
  /\ ForecastInit
  /\ RecoInit
  /\ AppInit

NextForecast ==
  \/ MountForecast
  \/ \E timeframe \in Timeframes : SelectTimeframe(timeframe)
  \/ \E q \in forecastRequests : ForecastRequestFails(q)
  \/ \E q \in forecastRequests : ForecastWithoutData(q)
  \/ \E q \in forecastRequests : ForecastArrives(q)

SpecForecast == InitForecast /\ [][NextForecast]_vars

\* the Product Recommendations page
NextReco ==
  \/ \E text \in Typed : TypeItem(text)
  \/ addItem
  \/ \E item \in Catalog : removeItem(item)
  \/ getRecommendations
  \/ \E q \in recoRequests : \E result \in BackendRecommendations(q.items) :
       RecommendationsArrive(q, result)
  \/ \E q \in recoRequests : RecommendationsFail(q)

SpecReco == Init /\ [][NextReco]_vars

\* validateFile on every file of Files
InitValidate ==
  /\ BasketInit
  /\ PageInit
  /\ dataset = [has_data |-> FALSE, rules |-> <<>>]
  /\ SalesInit
  /\ ForecastInit
  /\ salesHistory = <<>>
  /\ RecoInit
  /\ ValidateInit
  /\ UploadInit
  /\ DashInit
  /\ CsvInit

NextValidate == Validate

SpecValidate == InitValidate /\ [][NextValidate]_vars

\* the Data Upload page with its Upload dialog
NextUpload ==
  \/ \E file \in DroppedFiles : handleFiles(file)
  \/ \E u \in uploads : UploadResolves(u)
  \/ \E u \in uploads : \E message \in {FailedToFetch, ServerRefused} : UploadRejects(u, message)
  \/ \E fileId \in 1..MaxFiles : handleRemoveFile(fileId)
  \/ \E open \in BOOLEAN : setIsOpen(open)
  \/ \E file \in DroppedFiles : dialogHandleFiles(file)
  \/ \E u \in uploads : \E progress \in ProgressChoices : DialogProgress(u, progress)
  \/ \E u \in uploads : SimulatedUploadResolves(u)
  \/ \E u \in uploads : SimulatedUploadRejects(u)
  \/ \E fileId \in 1..MaxFiles : dialogRemoveFile(fileId)

SpecUpload == Init /\ [][NextUpload]_vars

\* App with the Sidebar and the Dashboard, against a backend with and without data
InitApp ==
  /\ BasketInit
  /\ PageInit
  /\ dataset \in { [has_data |-> FALSE, rules |-> <<>>], [has_data |-> TRUE, rules |-> <<RuleAB>>] }
  /\ SalesInit
  /\ ForecastInit
  /\ salesHistory = <<>>
  /\ RecoInit
  /\ ValidateRest
  /\ showAnalysisSelection = FALSE
  /\ isOpen = FALSE
  /\ dialogFiles = <<>>
  /\ uploads = {}
  /\ nextId = 1
  /\ uploadedFiles \in (IF dataset.has_data THEN { <<>>, <<UploadedCsv>> } ELSE { <<>> })
  /\ sentToBackend = (IF uploadedFiles = <<>> THEN {} ELSE {0})
  /\ removedIds = {}
  /\ DashInit
  /\ CsvInit

NextApp ==
  \/ MountDashboard
  \/ \E pageId \in SidebarPages : SidebarNavigation(pageId)
  \/ ToggleMobileMenu
  \/ UploadCsvButton
  \/ DashboardLoadArrives
  \/ DashboardLoadFails
  \/ \E confirmed \in BOOLEAN : ResetDataButton(confirmed)
  \/ \E t \in timers : \E confirmed \in BOOLEAN : RefreshTimerFires(t, confirmed)
  \/ \E r \in resets : ResetResolves(r)
  \/ \E r \in resets : ResetRejects(r)
  \/ \E owner \in {"sidebar", "dashboard"} : DialogUploadStarts(owner)
  \/ \E u \in dialogUploads : DialogUploadCompletes(u)
  \/ \E u \in dialogUploads : DialogUploadFails(u)

SpecApp == InitApp /\ [][NextApp]_vars

\* loadCSVData against every answer of the server
NextCsv ==
  \/ loadCSVData
  \/ \E random \in RandomDraws : FetchRejects(random)
  \/ \E response \in Responses : FetchResolves(response)
  \/ \E random \in RandomDraws : TextRejects(random)
  \/ TextResolves

SpecCsv == Init /\ [][NextCsv]_vars

\* ---------------------------------------------------------------- properties of the basket pipeline
Returned == pc = "done"
basketArray == ObjectValues(baskets)
RuleSet == { basketData.associationRules[i] : i \in 1..Len(basketData.associationRules) }
ItemsetSet == { basketData.frequentItemsets[i] : i \in 1..Len(basketData.frequentItemsets) }
NoRepeat(seq) == \A i, j \in 1..Len(seq) : i # j => seq[i] # seq[j]
Items(seq) == { seq[i] : i \in 1..Len(seq) }

\* C1: every returned rule has 0 <= confidence <= 1 and confidence >= support
C1_ConfidenceBounds ==
  Returned => \A r \in RuleSet :
    /\ RatGeq(r.confidence, Zero)
    /\ RatGeq(One, r.confidence)
    /\ RatGeq(r.confidence, r.support)

\* C2: every returned itemset and rule has 0 <= support <= 1 and a count
\* (frequency, transactions) of at most the number of baskets
C2_SupportBounds ==
  Returned =>
    /\ \A s \in ItemsetSet :
         /\ RatGeq(s.support, Zero)
         /\ RatGeq(One, s.support)
         /\ s.frequency <= Len(basketArray)
    /\ \A r \in RuleSet :
         /\ RatGeq(r.support, Zero)
         /\ RatGeq(One, r.support)
         /\ r.transactions <= Len(basketArray)

\* C3: antecedent and consequent of every returned rule have no item in common
C3_DisjointSides ==
  Returned => \A r \in RuleSet : Items(r.antecedent) \cap Items(r.consequent) = {}

\* C4: every counted pair occurs at most as often as each of its two
\* products, and every item of a returned rule reaches the support threshold
C4_AntiMonotone ==
  LET singleProducts == SingleProducts(basketArray, <<>>)
      productPairs == ProductPairs(basketArray, <<>>)
  IN /\ \A i \in 1..Len(productPairs) :
          LET parts == Split(productPairs[i].key, Arrow)
          IN /\ productPairs[i].value <= GetOr(singleProducts, parts[1], 0)
             /\ productPairs[i].value <= GetOr(singleProducts, parts[2], 0)
     /\ Returned => \A r \in RuleSet :
          \A item \in Items(r.antecedent) \cup Items(r.consequent) :
            RatGeq(Rat(GetOr(singleProducts, item, 0), Len(basketArray)), MinSupportRule)

\* C5: no basket lists the same product twice
C5_BasketsAreSets ==
  \A i \in 1..Len(baskets) : NoRepeat(baskets[i].value.products)

\* C8: the returned rules are ordered by lift descending, then confidence
\* descending, then antecedent size ascending
C8_SortedWithTieBreaks ==
  Returned => \A i, j \in 1..Len(basketData.associationRules) : i < j =>
    LET a == basketData.associationRules[i]
        b == basketData.associationRules[j]
    IN \/ RatLess(b.lift, a.lift)
       \/ /\ RatEq(a.lift, b.lift)
          /\ \/ RatLess(b.confidence, a.confidence)
             \/ /\ RatEq(a.confidence, b.confidence)
                /\ Len(a.antecedent) <= Len(b.antecedent)

\* C9: for two different products bought together, each direction that
\* meets the support, confidence and lift thresholds is a returned rule
C9_BothDirections ==
  Returned =>
    LET singleProducts == SingleProducts(basketArray, <<>>)
        productPairs == ProductPairs(basketArray, <<>>)
    IN \A a, b \in Products :
         (a # b /\ HasKey(productPairs, Join(SortPair(a, b), Arrow))) =>
           LET count == GetOr(productPairs, Join(SortPair(a, b), Arrow), 0)
               m == PairMetrics([key |-> Join(<<a, b>>, Arrow), value |-> count],
                                singleProducts, Len(basketArray))
           IN PassesFilter(m) =>
                \E r \in RuleSet : r.antecedent = <<a>> /\ r.consequent = <<b>>

\* C10: the conviction of a rule of confidence 1 is not the result of a
\* division by zero
C10_NoDivisionByZero ==
  Returned => \A r \in RuleSet :
    RatEq(r.confidence, One) => divisionsByZero = 0

\* ---------------------------------------------------------------- properties of the page
RuleIds(rules) ==
  { [antecedent |-> rules[i].antecedent, consequent |-> rules[i].consequent] :
      i \in 1..Len(rules) }

\* the response to a run of loadData with the given thresholds
ResponseFor(support, confidence) ==
  BackendAnalysis(dataset, AnalysisPayload([minSupport |-> support,
                                            minConfidence |-> confidence,
                                            minLift |-> One]))

\* the rules the page shows for the given thresholds
ShownFor(support, confidence) ==
  LET response == ResponseFor(support, confidence)
  IN ProcessRules(response, [i \in 1..Len(response) |-> 100])

\* C6: when the analysis finds no qualifying rule, generateAssociationRules
\* returns [] and the page holds an empty rule list and no error
C6_EmptyResultNoError ==
  /\ (Returned /\ PushedRules(ProductPairs(basketArray, <<>>),
                              SingleProducts(basketArray, <<>>),
                              Len(basketArray)) = <<>>)
       => basketData.associationRules = <<>>
  /\ (/\ requests = {}
      /\ appliedRequest # NoRequest
      /\ appliedRequest.id = started
      /\ ResponseFor(appliedRequest.minSupport, appliedRequest.minConfidence) = <<>>)
       => (associationRules = <<>> /\ error = Null)

\* C7: the rules shown for a min_confidence are among the rules shown for
\* every lower min_confidence, for the same dataset and min_support
C7_MonotoneShrinkage ==
  appliedRequest # NoRequest =>
    \A lower \in ConfidenceChoices :
      RatLess(lower, appliedRequest.minConfidence) =>
        RuleIds(associationRules) \subseteq
          RuleIds(ShownFor(appliedRequest.minSupport, lower))

\* ---------------------------------------------------------------- properties on the documented datasets
\* C11: for the five bread / butter / milk baskets the output contains the
\* rule {bread, butter} -> {milk} with support 0.6, confidence 2/3 and
\* lift (2/3) / 0.8
C11_BreadButterMilkRule ==
  (Returned /\ HoldsDataset(baskets, BreadButterMilk)) =>
    \E r \in RuleSet :
      /\ Items(r.antecedent) = {Bread, Butter}
      /\ Items(r.consequent) = {Milk}
      /\ RatEq(r.support, Rat(6, 10))
      /\ RatEq(r.confidence, Rat(2, 3))
      /\ RatEq(r.lift, RatDiv(Rat(2, 3), Rat(8, 10)))

\* C12: for ten baskets {A, B} the output contains the rule A -> B with
\* support 1, confidence 1 and lift 1
C12_TenTimesABRule ==
  (Returned /\ HoldsDataset(baskets, TenTimesAB)) =>
    \E r \in RuleSet :
      /\ r.antecedent = << <<65>> >>
      /\ r.consequent = << <<66>> >>
      /\ RatEq(r.support, One)
      /\ RatEq(r.confidence, One)
      /\ RatEq(r.lift, One)

\* C14: processMarketBasketData called with zero transactions fails before
\* any counting and returns nothing: a call on an empty list never reaches
\* its return statement
C14_EmptyInputFails ==
  RowsRead(baskets) = 0 => (pc # "done" /\ basketData = NoResult)

\* ---------------------------------------------------------------- properties of the forecast
SalesReturned == salesPc = "done"
predictions == salesData.predictions
Width(p) == p.upperBound - p.lowerBound

\* C15: the confidence of forecast day i + 1 is strictly smaller than the
\* confidence of day i, for every consecutive pair of the 30 forecast days
C15_ConfidenceDecreases ==
  SalesReturned =>
    \A i \in 1..(Len(predictions) - 1) :
      predictions[i + 1].confidence < predictions[i].confidence

\* C16: the width upperBound - lowerBound of forecast day i + 1 is at least
\* the width of day i
C16_IntervalWidens ==
  SalesReturned =>
    \A i \in 1..(Len(predictions) - 1) :
      Width(predictions[i + 1]) >= Width(predictions[i])

\* C18: for a non-empty history of fewer than 7 distinct days, lastSales is
\* the average of the daily sales of the days that are there
C18_BaseLevelIsAverage ==
  (SalesReturned /\ Len(dailySales) > 0 /\ Len(dailySales) < LastDays) =>
    RatEq(LastSales(salesData.historicalData),
          Rat(SumSales(salesData.historicalData), Len(salesData.historicalData)))

\* ---------------------------------------------------------------- properties of the forecast page
ForecastShown ==
  /\ ~forecastLoading
  /\ forecastError = Null
  /\ ~forecastData.isNull

\* C17: for a selected horizon of H days (the 30, 60 or 90 day button) the
\* forecast that is displayed covers exactly H days, one point per day in
\* ascending date order
C17_HorizonCovered ==
  ForecastShown =>
    /\ Len(forecastData.predictions) = TimeframeDays[selectedTimeframe]
    /\ \A k \in 1..(Len(forecastData.predictions) - 1) :
         forecastData.predictions[k + 1].date = forecastData.predictions[k].date + 1

\* ---------------------------------------------------------------- properties of the recommendations page
\* C19: no displayed recommendation is an item currently in the cart
C19_NoRecommendationInCart ==
  \A k \in 1..Len(recommendations) :
    ~Includes(currentItems, recommendations[k].product)

\* C20: when the backend answers with no recommendations the page holds an
\* empty list, error = null and loading = false; an error is set only when
\* the request failed or the cart was empty
C20_EmptyAnswerNoError ==
  /\ (lastAnswer.kind = "answer" /\ lastAnswer.result.recommendations = <<>>) =>
       (recommendations = <<>> /\ recoError = Null /\ recoLoading = FALSE)
  /\ recoError # Null => lastAnswer.kind \in {"failed", "emptyCart"}

\* an empty answer has replaced the recommendations of a cart with items
C20_EmptyAnswerShown ==
  /\ lastAnswer.kind = "answer"
  /\ lastAnswer.result.hasData
  /\ lastAnswer.result.recommendations = <<>>
  /\ recommendations = <<>>
  /\ currentItems # <<>>

\* ---------------------------------------------------------------- properties of the daily sales
RECURSIVE SumAmounts(_)
SumAmounts(rows) ==
  IF rows = <<>> THEN 0 ELSE parseFloat(Head(rows).total_amount) + SumAmounts(Tail(rows))

InputDates == { salesInput[i].date : i \in 1..Len(salesInput) }

\* C29: historicalData has exactly one entry per distinct date of the rows,
\* in ascending date order; totalTransactions is the number of rows and
\* totalRevenue the sum of their total_amount
C29_DailyTotals ==
  SalesReturned =>
    LET history == salesData.historicalData
    IN /\ { history[i].date : i \in 1..Len(history) } = InputDates
       /\ Len(history) = Cardinality(InputDates)
       /\ \A i \in 1..(Len(history) - 1) :
            DateValue(history[i].date) < DateValue(history[i + 1].date)
       /\ salesData.totalTransactions = Len(salesInput)
       /\ salesData.totalRevenue = SumAmounts(salesInput)

\* a list with two rows of one date, read after a row of a later date
C29_UnsortedRepeatedDates ==
  /\ SalesReturned
  /\ Len(salesInput) >= 3
  /\ Len(salesData.historicalData) >= 2
  /\ Len(salesData.historicalData) < Len(salesInput)
  /\ DateValue(salesInput[1].date) > DateValue(salesInput[2].date)

\* ---------------------------------------------------------------- properties of concurrent loads
\* the run of loadData whose rules are shown is the run for the thresholds
\* the sliders hold
LatestRequestApplied ==
  (requests = {} /\ ~loading /\ error = Null /\ appliedRequest # NoRequest) =>
    /\ appliedRequest.id = started
    /\ RatEq(appliedRequest.minSupport, minSupport)
    /\ RatEq(appliedRequest.minConfidence, minConfidence)

Validated == validation # NoValidation

\* the name ends in one of the allowed extensions, in either case of letters
EndsInAllowedExtension(name) ==
  \E ext \in allowedExtensions :
    /\ Len(name) >= Len(ext)
    /\ SubSeq(toLowerCase(name), Len(name) - Len(ext) + 1, Len(name)) = ext

MessagesOf(result) == { result.errors[i] : i \in 1..Len(result.errors) }

\* C22: validateFile answers isValid = true exactly for a name ending in
\* .csv, .xls or .xlsx with 0 < size < 10MB, and otherwise errors holds the
\* message of every violated rule
C22_ValidExactly ==
  Validated =>
    /\ validation.isValid <=>
         (/\ EndsInAllowedExtension(chosenFile.name)
          /\ chosenFile.size > 0
          /\ chosenFile.size < 10 * 1024 * 1024)
    /\ ~EndsInAllowedExtension(chosenFile.name) => TypeMessage \in MessagesOf(validation)
    /\ chosenFile.size >= 10 * 1024 * 1024 => SizeMessage \in MessagesOf(validation)
    /\ chosenFile.size = 0 => EmptyMessage \in MessagesOf(validation)

\* the same with a file of exactly 10MB allowed and a listed MIME type
\* accepted in place of the extension, as validateFile is written
ValidAsWritten ==
  Validated =>
    /\ validation.isValid <=>
         (/\ (EndsInAllowedExtension(chosenFile.name) \/ chosenFile.type \in allowedTypes)
          /\ chosenFile.size > 0
          /\ chosenFile.size <= 10 * 1024 * 1024)

Entries(files) == { files[i] : i \in 1..Len(files) }

\* C23: in the Data Upload page and in the Upload dialog, a file has status
\* SUCCESS only after apiService.uploadData was called for it and resolved
C23_SuccessOnlyAfterBackend ==
  \A f \in Entries(uploadedFiles) \cup Entries(dialogFiles) :
    f.status = SUCCESS => f.id \in sentToBackend

\* the same of the Data Upload page alone
PageSuccessOnlyAfterBackend ==
  \A f \in Entries(uploadedFiles) : f.status = SUCCESS => f.id \in sentToBackend

\* the steps a status may take
StatusMoves(before, after) ==
  \/ after = before
  \/ before = PENDING /\ after = UPLOADING
  \/ before = UPLOADING /\ after \in {SUCCESS, ERROR}

\* the entries of a list after a step, against the entries before it
ListMoves(before, after) ==
  \A g \in Entries(after) :
    /\ \A f \in Entries(before) : f.id = g.id => StatusMoves(f.status, g.status)
    /\ ~HasId(before, g.id) =>
         g.status = (IF validateFile(g.file).isValid THEN UPLOADING ELSE ERROR)
    /\ ~validateFile(g.file).isValid => (g.status = ERROR /\ ~Waiting(g.id)')

\* C25: a status only moves PENDING -> UPLOADING -> SUCCESS or ERROR; a file
\* that fails validation is created in ERROR and is never uploaded; a status
\* SUCCESS or ERROR never changes again
C25_StatusOnlyMovesForward ==
  [][ListMoves(uploadedFiles, uploadedFiles') /\ ListMoves(dialogFiles, dialogFiles')]_vars

\* a file uploaded with success next to a file that failed validation
C25_SuccessAndRejectedFile ==
  \E f, g \in Entries(uploadedFiles) \cup Entries(dialogFiles) :
    /\ f.status = SUCCESS
    /\ g.status = ERROR
    /\ ~validateFile(g.file).isValid

RemovedIdSet == { r.id : r \in removedIds }

\* C26: an id given to removeFile never reappears in uploadedFiles, and the
\* completion or failure of an upload changes no entry of another file (none
\* at all when its file was removed)
C26_RemovedStaysRemoved ==
  [][/\ \A g \in Entries(uploadedFiles') : g.id \notin RemovedIdSet'
     /\ \A u \in uploads \ uploads' :
          /\ \A f \in Entries(uploadedFiles) : f.id # u.id => f \in Entries(uploadedFiles')
          /\ Len(uploadedFiles') = Len(uploadedFiles)
          /\ u.id \in RemovedIdSet => uploadedFiles' = uploadedFiles]_vars

\* an upload has ended after its file was removed, with another file listed
C26_EndedAfterRemoval ==
  /\ \E r \in removedIds : r.waiting /\ ~Waiting(r.id)
  /\ uploadedFiles # <<>>

\* ---------------------------------------------------------------- properties of App and the Dashboard
\* C27: currentPage is always a page id that App.renderPage handles and the
\* sidebar lists; the Upload CSV File button of the empty dashboard leads to
\* the Data Upload page
C27_CurrentPageHandled ==
  /\ currentPage \in HandledPages \cap SidebarPages
  /\ lastStep = "UploadCsvButton" => currentPage = "data-upload"

\* the same of the Sidebar alone: its items and its Quick Upload
SidebarPageHandled ==
  [][(lastStep' \in {"SidebarNavigation", "DialogUploadCompletes"} /\ currentPage' # currentPage)
       => currentPage' \in HandledPages \cap SidebarPages]_vars

\* C28: the backend reset and clearAllFiles are invoked only in a run of
\* refreshDashboard started with the Reset Data button and confirmed; the
\* completion of an upload starts no run; a declined confirmation and a
\* failed reset leave uploadedFiles and dashboardData as they are
C28_ResetOnlyWhenAsked ==
  [][/\ resetOrigins' \subseteq {"button"}
     /\ clearOrigins' \subseteq {"button"}
     /\ runOrigins' \subseteq {"button"}
     /\ lastStep' \in {"declined", "resetFailed"} =>
          (uploadedFiles' = uploadedFiles /\ dashboardData' = dashboardData)]_vars

\* the part on declined confirmations and failed resets
DeclinedOrFailedChangesNothing ==
  [][lastStep' \in {"declined", "resetFailed"} =>
       (uploadedFiles' = uploadedFiles /\ dashboardData' = dashboardData)]_vars

\* ---------------------------------------------------------------- properties of loadCSVData
\* the CSV could not be loaded: fetch rejected, the body could not be read,
\* or the server answered with a status that is not a success
NotLoaded == csvPc = "done" /\ (csvResponse = NoResponse \/ ~Ok(csvResponse.status))

\* C21: whenever the CSV cannot be loaded (fetch rejects or the status is not
\* a success), loadCSVData returns the 100 rows of generateFallbackData, not
\* rows parsed from the failed response
C21_FallbackWhenNotLoaded ==
  NotLoaded =>
    /\ csvReturn.by = "generateFallbackData"
    /\ Len(csvReturn.rows) = 100

\* the same when fetch itself rejects
FallbackWhenFetchRejects ==
  (csvPc = "done" /\ csvResponse = NoResponse) =>
    (csvReturn.by = "generateFallbackData" /\ Len(csvReturn.rows) = 100)

====
